---- MODULE Spec2Model ----
(***************************************************************************)
(* Model of ArborX's distributed-tree exchange utilities                   *)
(*   src/src/details/ArborX_DetailsDistributedTreeUtils.hpp                *)
(*   src/src/details/ArborX_DetailsPermutedData.hpp                        *)
(*                                                                         *)
(* C++ views are 0-based; they are modelled as TLA+ sequences, so the C++  *)
(* element a(i) is the sequence element a[i + 1], written At(a, i).        *)
(* Process ranks and query ids keep their 0-based values.                  *)
(* Distances are floats in the source; the model uses naturals that stand  *)
(* for multiples of one half (0.5 -> 1, 1.0 -> 2, 2.0 -> 4, 4.0 -> 8):     *)
(* only their order is ever used by the code.                              *)
(***************************************************************************)
EXTENDS Integers, Sequences, FiniteSets, Bags, TLC

\* ------------------------------------------------------------------ bounds
MaxProcs == 2      \* largest process group of the general round
MaxQueries == 2    \* queries per process in the general round
MaxDest == 2       \* destinations per query in the general round
MaxItems == 2      \* forwarded items, summed over all processes
MaxRes == 2        \* candidates the local search returns per forwarded query
MaxDist == 2       \* largest distance the local search returns
MaxK == 2          \* largest requested neighbour count k
MaxGathered == 3   \* results gathered on one origin in the merge step
MaxNnz == 3        \* items counted by countResults
MaxData == 3       \* extent of the container a PermutedData wraps
MaxPermute == 3    \* extent of the permutation a PermutedData holds
MaxExtent == 2     \* item count of a view handed to sendAcrossNetwork alone
MaxFairQueries == 1  \* queries per process in the rounds followed to the end
MaxContigItems == 3  \* forwarded items in the rounds with more items

VARIABLES
  comm_size,       \* size of the process group (MPI_Comm_size)
  pc,              \* pc[p]: position of process p in its round
  with_distances,  \* with_distances[p]: p passes distances_ptr != nullptr
  queries,         \* forwardQueries argument: queries[p], the local batch
  indices,         \* forwardQueries argument: flattened destination ranks
  offset,          \* forwardQueries argument: CSR offsets over queries
  sendcounts,      \* sendcounts[g][p]: counts p contributed to plan g
  distributor,     \* distributor[p]: the Distributor object p holds
  chan,            \* chan[s][d]: messages in flight from s to d, in order
  sent,            \* sent[p][e]: what p handed to sendAcrossNetwork in
                   \* exchange e (history, never read by the program)
  fwd_queries,     \* forwardQueries outputs
  fwd_ids,
  fwd_ranks,
  res_offset,      \* local search output: CSR offsets over forwarded queries
  res_out,         \* local search output: candidate indices
  res_distances,   \* local search output: candidate distances
  out,             \* communicateResultsBack argument, rebound on return
  ranks,           \* communicateResultsBack argument, rebound on return
  ids,             \* communicateResultsBack argument, rebound on return
  distances,       \* communicateResultsBack argument, rebound on return
  result_offset,   \* CSR offsets over the origin's own queries (merge step)
  count_n_queries, \* countResults argument
  count_query_ids, \* countResults argument: the query of every result
  count_offset,    \* countResults argument offset, the view it rebuilds
  count_pending,   \* items of the counting loop that have not run yet
  count_pc,        \* position inside countResults
  data,            \* PermutedData::_data
  permute,         \* PermutedData::_permute
  attach_indices,  \* PermutedData's template argument AttachIndices
  last_call,       \* the last call on the PermutedData and what it returned
  send_pc,         \* position inside one call of sendAcrossNetwork
  send_exports,    \* extents 0..7 of the argument exports
  send_imports,    \* the argument imports: its extents 0..7 and its items
  send_plan,       \* total send and receive length of the argument distributor
  send_posted,     \* whether doPostsAndWaits has been called
  ex_pc,           \* ex_pc[p]: position of p in one exchange, message by message
  ex_dests,        \* ex_dests[p]: destination of every item p exports
  ex_net,          \* messages posted and not yet delivered
  ex_sent,         \* ex_sent[p]: destinations to which p's send has completed
  ex_staging,      \* ex_staging[p]: import_buffer of p's call
  ex_imports,      \* ex_imports[p]: the view imports of p's caller
  flt_pc,          \* position inside filterResults on process 0, kernel by kernel
  flt_new_offset,  \* filterResults local new_offset
  flt_new_indices, \* filterResults local new_indices
  flt_new_ranks,   \* filterResults local new_ranks
  flt_unit,        \* flt_unit[q]: item q of truncate_results: its position,
                   \* loop variable i, queue and count
  flt_scratch,     \* flt_scratch[q]: positions of buffer item q has written
  flt_written      \* flt_written[q]: positions of new_indices and new_ranks
                   \* item q has written

roundVars == <<comm_size, pc, with_distances, queries, indices, offset,
               sendcounts, distributor, chan, sent, fwd_queries, fwd_ids,
               fwd_ranks,
               res_offset, res_out, res_distances, out, ranks, ids, distances,
               result_offset>>

countVars == <<count_n_queries, count_query_ids, count_offset, count_pending,
               count_pc>>

permutedVars == <<data, permute, attach_indices, last_call>>

\* The variables of the functions that are modelled on their own
sendVars == <<send_pc, send_exports, send_imports, send_plan, send_posted>>

exchangeVars == <<ex_pc, ex_dests, ex_net, ex_sent, ex_staging, ex_imports>>

filterVars == <<flt_pc, flt_new_offset, flt_new_indices, flt_new_ranks, flt_unit,
                flt_scratch, flt_written>>

unitVars == <<countVars, permutedVars, sendVars, exchangeVars, filterVars>>

vars == <<roundVars, unitVars>>

\* ----------------------------------------------------------------- helpers
At(a, i) == a[i + 1]

Procs == 0 .. (comm_size - 1)

RECURSIVE SumSeq(_)
SumSeq(s) == IF s = <<>> THEN 0 ELSE Head(s) + SumSeq(Tail(s))

RECURSIVE Flatten(_)
Flatten(ss) == IF ss = <<>> THEN <<>> ELSE Head(ss) \o Flatten(Tail(ss))

SeqsUpTo(S, n) == UNION {[1 .. m -> S] : m \in 0 .. n}

Perms(S) == {f \in [1 .. Cardinality(S) -> S] :
               \A i, j \in 1 .. Cardinality(S) : f[i] = f[j] => i = j}

SeqToBag(s) == [x \in {s[i] : i \in 1 .. Len(s)} |->
                  Cardinality({i \in 1 .. Len(s) : s[i] = x})]

\* KokkosExt::exclusive_scan(space, v, v, 0): out(i) = sum of v(0..i-1)
ExclusiveScan(v) == [i \in 1 .. Len(v) |-> SumSeq(SubSeq(v, 1, i - 1))]

\* KokkosExt::lastElement(space, v)
LastElement(v) == v[Len(v)]

\* The batch q whose CSR slice [offset(q), offset(q+1)) holds position i, i.e.
\* the q for which the loop "for (i = offset(q); i < offset(q + 1); ++i)"
\* visits i.  Slices of a well-formed CSR offset are disjoint and cover
\* [0, lastElement(offset)), so q is unique.
BatchOf(off, i) ==
  CHOOSE q \in 0 .. (Len(off) - 2) : At(off, q) <= i /\ i < At(off, q + 1)

\* --------------------------------------------------------------- Distributor
\* The communication plan (ArborX_DetailsDistributor.hpp, another header).
\* createFromSends is collective: every process contributes the
\* number of items it sends to each rank and learns how many it receives from
\* each rank.  The receive buffer is laid out in one block per source; the
\* order of the blocks is fixed by the plan and unspecified otherwise.
NoPlan == [dests |-> <<>>, sources |-> <<>>, n_imports |-> 0]

\* Per-item destinations of the batched overload createFromSends(ranks, offset)
ExpandBatches(batch_ranks, off) ==
  [i \in 1 .. LastElement(off) |-> At(batch_ranks, BatchOf(off, i - 1))]

DestCounts(dests) ==
  [d \in 1 .. comm_size |->
     Cardinality({i \in 1 .. Len(dests) : dests[i] = d - 1})]

Positions(dests, d) ==
  SelectSeq([i \in 1 .. Len(dests) |-> i], LAMBDA i : dests[i] = d)

\* The items of exports bound for rank d, in the order they have in exports
Block(exports, dests, d) ==
  [j \in 1 .. Len(Positions(dests, d)) |-> exports[Positions(dests, d)[j]]]

PlanPosted(g) == \A s \in Procs : Len(sendcounts[g][s]) = comm_size

SourcesOf(g, p) == {s \in Procs : sendcounts[g][s][p + 1] > 0}

TotalReceiveLength(g, p) ==
  SumSeq([i \in 1 .. comm_size |-> sendcounts[g][i - 1][p + 1]])

\* Distributor::doPostsAndWaits, sending half: one message per destination
DoPosts(p, exports) ==
  [s \in Procs |->
     [d \in Procs |->
        IF s = p /\ Positions(distributor[p].dests, d) # <<>>
          THEN Append(chan[s][d], Block(exports, distributor[p].dests, d))
          ELSE chan[s][d]]]

\* Distributor::doPostsAndWaits, receiving half: the next message of every
\* source of the plan, concatenated in the plan's source order
ReceivesReady(p) ==
  \A i \in 1 .. Len(distributor[p].sources) :
     chan[distributor[p].sources[i]][p] # <<>>

ImportBuffer(p) ==
  Flatten([i \in 1 .. Len(distributor[p].sources) |->
             Head(chan[distributor[p].sources[i]][p])])

DoWaits(p) ==
  [s \in Procs |->
     [d \in Procs |->
        IF d = p /\ \E i \in 1 .. Len(distributor[p].sources) :
                       distributor[p].sources[i] = s
          THEN Tail(chan[s][d])
          ELSE chan[s][d]]]

\* ------------------------------------------------------- sendAcrossNetwork
\* ARBORX_ASSERT of sendAcrossNetwork: the first extents match the plan.
\* (Every view exchanged by this file is rank 1: extents 1..7 are all 1.)
ExtentsMatch(p, exports, n_imports) ==
  /\ Len(exports) = Len(distributor[p].dests)
  /\ n_imports = distributor[p].n_imports

\* Faulty variant of DeepCopy: the last received item is not copied back
DeepCopyShort(n_imports, import_buffer) ==
  [i \in 1 .. (n_imports - 1) |-> import_buffer[i]]

\* Kokkos::deep_copy(space, imports, imports_layout_right): imports keeps its
\* extent and takes the contents of the staging buffer the transport filled.
DeepCopy(n_imports, import_buffer) ==
  [i \in 1 .. n_imports |-> import_buffer[i]]

\* What sendAcrossNetwork leaves in imports once doPostsAndWaits has returned
Imports(p) == DeepCopy(distributor[p].n_imports, ImportBuffer(p))

\* ----------------------------------------------------------- forwardQueries
inputVars == <<comm_size, with_distances, queries, indices, offset>>
fwdVars == <<fwd_queries, fwd_ids, fwd_ranks>>
resVars == <<res_offset, res_out, res_distances>>
backVars == <<out, ranks, ids, distances, result_offset>>

\* Faulty variant of ExportRanks: the buffer is filled with rank 0
ExportRanksOfRoot(comm_rank, n_exports) == [i \in 1 .. n_exports |-> 0]

\* export_ranks: n_exports copies of comm_rank (deep_copy of a scalar)
ExportRanks(comm_rank, n_exports) == [i \in 1 .. n_exports |-> comm_rank]

\* forward_queries_fill_buffer: exports(i) = queries(q), i in q's slice
FillQueries(qs, off) ==
  [i \in 1 .. LastElement(off) |-> At(qs, BatchOf(off, i - 1))]

\* Faulty variant of FillIds: the buffer position is written, not the query
FillIdsByPosition(off) == [i \in 1 .. LastElement(off) |-> i - 1]

\* forward_queries_fill_ids: export_ids(i) = q, i in q's slice
FillIds(off) ==
  [i \in 1 .. LastElement(off) |-> BatchOf(off, i - 1)]

\* Faulty variant of FillOriginalIds: the forwarded-query number q is written
\* instead of its original id ids(q)
FillBatchNumbers(idv, off) ==
  [i \in 1 .. LastElement(off) |-> BatchOf(off, i - 1)]

\* communicateResultsBack fill_buffer: export_ids(i) = ids(q), i in q's slice
FillOriginalIds(idv, off) ==
  [i \in 1 .. LastElement(off) |-> At(idv, BatchOf(off, i - 1))]

\* The export buffer the process hands to sendAcrossNetwork at each call site
ExportBuffer(p) ==
  CASE pc[p] = "fq_ranks" -> ExportRanks(p, LastElement(offset[p]))
    [] pc[p] = "fq_queries" -> FillQueries(queries[p], offset[p])
    [] pc[p] = "fq_ids" -> FillIds(offset[p])
    [] pc[p] = "crb_ranks" -> ExportRanks(p, LastElement(res_offset[p]))
    [] pc[p] = "crb_ids" -> FillOriginalIds(ids[p], res_offset[p])
    [] pc[p] = "crb_out" -> out[p]
    [] pc[p] = "crb_distances" -> distances[p]

PostStages == {"fq_ranks", "fq_queries", "fq_ids",
               "crb_ranks", "crb_ids", "crb_out", "crb_distances"}

WaitStages == {"fq_ranks_wait", "fq_queries_wait", "fq_ids_wait",
               "crb_ranks_wait", "crb_ids_wait", "crb_out_wait",
               "crb_distances_wait"}

\* Faulty variant of AfterWait: only process 0 goes on to send distances
AfterWaitRootOnly(p) ==
  CASE pc[p] = "fq_plan_wait" -> "fq_ranks"
    [] pc[p] = "fq_ranks_wait" -> "fq_queries"
    [] pc[p] = "fq_queries_wait" -> "fq_ids"
    [] pc[p] = "fq_ids_wait" -> "search"
    [] pc[p] = "crb_plan_wait" -> "crb_ranks"
    [] pc[p] = "crb_ranks_wait" -> "crb_ids"
    [] pc[p] = "crb_ids_wait" -> "crb_out"
    [] pc[p] = "crb_out_wait" ->
         IF with_distances[p] /\ p = 0 THEN "crb_distances" ELSE "gathered"
    [] pc[p] = "crb_distances_wait" -> "gathered"

\* The statement that follows each blocking call, in program order
AfterWait(p) ==
  CASE pc[p] = "fq_plan_wait" -> "fq_ranks"
    [] pc[p] = "fq_ranks_wait" -> "fq_queries"
    [] pc[p] = "fq_queries_wait" -> "fq_ids"
    [] pc[p] = "fq_ids_wait" -> "search"
    [] pc[p] = "crb_plan_wait" -> "crb_ranks"
    [] pc[p] = "crb_ranks_wait" -> "crb_ids"
    [] pc[p] = "crb_ids_wait" -> "crb_out"
    [] pc[p] = "crb_out_wait" ->
         IF with_distances[p] THEN "crb_distances" ELSE "gathered"
    [] pc[p] = "crb_distances_wait" -> "gathered"

\* forwardQueries, lines 163-167: build the plan from the destination list
ForwardQueriesCreatePlan(p) ==
  /\ pc[p] = "fq_plan"
  /\ sendcounts' = [sendcounts EXCEPT !["fq"][p] = DestCounts(indices[p])]
  /\ distributor' = [distributor EXCEPT ![p] =
                       [NoPlan EXCEPT !.dests = indices[p]]]
  /\ pc' = [pc EXCEPT ![p] = "fq_plan_wait"]
  /\ UNCHANGED <<unitVars, inputVars, chan, sent, fwdVars, resVars, backVars>>

\* createFromSends returns once every process has contributed its counts
CreateFromSendsReturn(p) ==
  /\ pc[p] \in {"fq_plan_wait", "crb_plan_wait"}
  /\ LET g == IF pc[p] = "fq_plan_wait" THEN "fq" ELSE "crb" IN
       /\ PlanPosted(g)
       /\ \E order \in Perms(SourcesOf(g, p)) :
            distributor' = [distributor EXCEPT ![p] =
                              [dests |-> distributor[p].dests,
                               sources |-> order,
                               n_imports |-> TotalReceiveLength(g, p)]]
  /\ pc' = [pc EXCEPT ![p] = AfterWait(p)]
  /\ UNCHANGED <<unitVars, inputVars, sendcounts, chan, sent, fwdVars,
                 resVars,
                 backVars>>

\* sendAcrossNetwork up to the point where doPostsAndWaits has posted
SendAcrossNetworkPost(p) ==
  /\ pc[p] \in PostStages
  /\ ExtentsMatch(p, ExportBuffer(p), distributor[p].n_imports)
  /\ chan' = DoPosts(p, ExportBuffer(p))
  /\ sent' = [sent EXCEPT ![p][pc[p]] =
                [exports |-> ExportBuffer(p), dests |-> distributor[p].dests]]
  /\ pc' = [pc EXCEPT ![p] = pc[p] \o "_wait"]
  /\ UNCHANGED <<unitVars, inputVars, sendcounts, distributor, fwdVars,
                 resVars,
                 backVars>>

\* sendAcrossNetwork returns; the caller rebinds its view to the imports
SendAcrossNetworkReturn(p) ==
  /\ pc[p] \in WaitStages
  /\ ReceivesReady(p)
  /\ chan' = DoWaits(p)
  /\ fwd_ranks' = IF pc[p] = "fq_ranks_wait"
                    THEN [fwd_ranks EXCEPT ![p] = Imports(p)] ELSE fwd_ranks
  /\ fwd_queries' = IF pc[p] = "fq_queries_wait"
                      THEN [fwd_queries EXCEPT ![p] = Imports(p)]
                      ELSE fwd_queries
  /\ fwd_ids' = IF pc[p] = "fq_ids_wait"
                  THEN [fwd_ids EXCEPT ![p] = Imports(p)] ELSE fwd_ids
  /\ ranks' = IF pc[p] = "crb_ranks_wait"
                THEN [ranks EXCEPT ![p] = Imports(p)] ELSE ranks
  /\ ids' = IF pc[p] = "crb_ids_wait"
              THEN [ids EXCEPT ![p] = Imports(p)] ELSE ids
  /\ out' = IF pc[p] = "crb_out_wait"
              THEN [out EXCEPT ![p] = Imports(p)] ELSE out
  /\ distances' = IF pc[p] = "crb_distances_wait"
                    THEN [distances EXCEPT ![p] = Imports(p)] ELSE distances
  /\ pc' = [pc EXCEPT ![p] = AfterWait(p)]
  /\ UNCHANGED <<unitVars, inputVars, sendcounts, distributor, sent,
                 resVars,
                 result_offset>>

\* ------------------------------------------------------------- local search
\* The local tree search (external collaborator): for every forwarded query
\* it returns some candidates, as CSR offsets over the forwarded queries, the
\* candidates' local indices and their distances.  The caller then hands
\* fwd_ranks and fwd_ids to communicateResultsBack as ranks and ids.
LocalSearch(p) ==
  /\ pc[p] = "search"
  /\ \E cnt \in [1 .. Len(fwd_queries[p]) -> 0 .. MaxRes] :
       LET off == ExclusiveScan(cnt \o <<0>>) IN
         /\ res_offset' = [res_offset EXCEPT ![p] = off]
         /\ res_out' = [res_out EXCEPT ![p] =
                          [i \in 1 .. LastElement(off) |-> i - 1]]
         /\ \E d \in [1 .. LastElement(off) -> 1 .. MaxDist] :
              res_distances' = [res_distances EXCEPT ![p] = d]
  /\ out' = [out EXCEPT ![p] = res_out'[p]]
  /\ distances' = [distances EXCEPT ![p] = res_distances'[p]]
  /\ ranks' = [ranks EXCEPT ![p] = fwd_ranks[p]]
  /\ ids' = [ids EXCEPT ![p] = fwd_ids[p]]
  /\ pc' = [pc EXCEPT ![p] = "crb_plan"]
  /\ UNCHANGED <<unitVars, inputVars, sendcounts, distributor, chan, sent,
                 fwdVars,
                 result_offset>>

\* --------------------------------------------------- communicateResultsBack
\* lines 256-268: build the return plan from (ranks, offset), no reordering
CommunicateResultsBackCreatePlan(p) ==
  /\ pc[p] = "crb_plan"
  /\ LET dests == ExpandBatches(ranks[p], res_offset[p]) IN
       /\ sendcounts' = [sendcounts EXCEPT !["crb"][p] = DestCounts(dests)]
       /\ distributor' = [distributor EXCEPT ![p] =
                            [NoPlan EXCEPT !.dests = dests]]
  /\ pc' = [pc EXCEPT ![p] = "crb_plan_wait"]
  /\ UNCHANGED <<unitVars, inputVars, chan, sent, fwdVars, resVars, backVars>>

\* ------------------------------------------------------------- countResults
Zeros(n) == [i \in 1 .. n |-> 0]

\* Faulty variant of AtomicIncrement: a plain ++offset(q) whose update is
\* lost when another item has already written the counter
RacyIncrement(off, q) == [off EXCEPT ![q + 1] = IF @ > 0 THEN @ ELSE 1]

\* Kokkos::atomic_increment(&offset(query_ids(i))): one indivisible
\* read-modify-write of the counter of query q
AtomicIncrement(off, q) == [off EXCEPT ![q + 1] = @ + 1]

RECURSIVE IncrementAll(_, _)
IncrementAll(off, query_ids) ==
  IF query_ids = <<>> THEN off
  ELSE IncrementAll(AtomicIncrement(off, Head(query_ids)), Tail(query_ids))

\* Faulty variant of CountResultsOf: the counts are left as they are, not scanned
CountResultsNoScan(n_queries, query_ids) ==
  IncrementAll(Zeros(n_queries + 1), query_ids)

\* countResults run to completion: realloc to n_queries + 1 zeros, one
\* increment per item, exclusive scan in place
CountResultsOf(n_queries, query_ids) ==
  ExclusiveScan(IncrementAll(Zeros(n_queries + 1), query_ids))

\* -------------------------------------------------------------- sortResults
\* ArborX::Details::sortObjects (another header): sorts the keys it
\* is given and returns a permutation p with keys(p(0)) <= keys(p(1)) <= ...
SortObjects(keys) ==
  {perm \in Perms(1 .. Len(keys)) :
     \A i, j \in 1 .. Len(keys) : i < j => keys[perm[i]] <= keys[perm[j]]}

\* ArborX::Details::applyPermutation (another header):
\* view(i) becomes the former view(permutation(i))
ApplyPermutation(permutation, view) ==
  [i \in 1 .. Len(view) |-> view[permutation[i]]]

\* ------------------------------------------------------------ filterResults
Min(a, b) == IF a < b THEN a ELSE b

GetK(query) == query.k

\* discard_results followed by the exclusive scan (lines 341-352)
NewOffset(qs, off) ==
  ExclusiveScan([q \in 1 .. (Len(qs) + 1) |->
                   IF q <= Len(qs)
                     THEN Min(off[q + 1] - off[q], GetK(qs[q]))
                     ELSE 0])

\* PairIndexDistance of the candidate at position i of the flat buffers
PairIndexDistance(idx, rks, dst, i) ==
  [first |-> <<idx[i], rks[i]>>, second |-> dst[i]]

\* Faulty variant of CompareDistance: the comparison is not reversed
CompareDistanceLess(lhs, rhs) == lhs.second < rhs.second

\* struct CompareDistance, lines 361-369
CompareDistance(lhs, rhs) == lhs.second > rhs.second

\* Details::PriorityQueue (another header) keeps the pushed elements
\* and serves as top() an element that Compare orders before no other one
\* (the convention of std::priority_queue).  The queue is modelled by the set
\* of buffer positions it holds; which of several equivalent elements is on
\* top is left open.
QueueTops(queue, idx, rks, dst) ==
  {i \in queue :
     \A j \in queue : ~CompareDistance(PairIndexDistance(idx, rks, dst, i),
                                      PairIndexDistance(idx, rks, dst, j))}

\* Every sequence of positions that "while (!queue.empty() && count < k)
\* { emit top(); pop(); ++count; }" can emit
RECURSIVE PopOrders(_, _, _, _, _)
PopOrders(queue, k, idx, rks, dst) ==
  IF queue = {} \/ k <= 0 THEN {<<>>}
  ELSE UNION {{<<t>> \o rest :
                 rest \in PopOrders(queue \ {t}, k - 1, idx, rks, dst)} :
              t \in QueueTops(queue, idx, rks, dst)}

\* truncate_results for query q (lines 384-405): all candidates of the slice
\* are emplaced, then at most k are popped
TruncateQuery(q, qs, off, idx, rks, dst) ==
  IF At(off, q + 1) > At(off, q)
    THEN PopOrders((At(off, q) + 1) .. At(off, q + 1), GetK(At(qs, q)),
                   idx, rks, dst)
    ELSE {<<>>}

\* One popped order per query
TruncateChoices(qs, off, idx, rks, dst) ==
  {c \in [1 .. Len(qs) ->
            UNION {TruncateQuery(q, qs, off, idx, rks, dst) :
                     q \in 0 .. (Len(qs) - 1)}] :
     \A q \in 1 .. Len(qs) :
        c[q] \in TruncateQuery(q - 1, qs, off, idx, rks, dst)}

\* new_indices / new_ranks: zero-initialised views of n_truncated_results
\* elements; the count-th pop of query q is written at new_offset(q) + count
Emit(view, choice, new_off) ==
  [j \in 1 .. LastElement(new_off) |->
     IF \E q \in 1 .. Len(choice) : \E c \in 1 .. Len(choice[q]) :
          new_off[q] + c = j
       THEN LET q == CHOOSE q \in 1 .. Len(choice) :
                       \E c \in 1 .. Len(choice[q]) : new_off[q] + c = j
            IN view[choice[q][j - new_off[q]]]
       ELSE 0]

\* ------------------------------------------------- merge step at the origin
\* countResults(space, n_queries, ids, offset)
CountResults(p) ==
  /\ pc[p] = "gathered"
  /\ result_offset' = [result_offset EXCEPT ![p] =
                         CountResultsOf(Len(queries[p]), ids[p])]
  /\ pc' = [pc EXCEPT ![p] = "sort"]
  /\ UNCHANGED <<unitVars, inputVars, sendcounts, distributor, chan, sent,
                 fwdVars, resVars,
                 out, ranks, ids, distances>>

\* Faulty variant of SortResults: only the first companion is permuted
SortResultsFirstOnly(p) ==
  /\ pc[p] = "sort"
  /\ IF Len(ids[p]) = 0
       THEN UNCHANGED out
       ELSE \E permutation \in SortObjects(ids[p]) :
              out' = [out EXCEPT ![p] = ApplyPermutation(permutation, @)]
  /\ pc' = [pc EXCEPT ![p] = IF with_distances[p] THEN "filter" ELSE "done"]
  /\ UNCHANGED <<unitVars, inputVars, sendcounts, distributor, chan, sent,
                 fwdVars, resVars, ids, result_offset, ranks, distances>>

\* Faulty variant of SortResults: no copy of the keys is made, sortObjects
\* sorts the caller's keys
SortResultsInPlace(p) ==
  /\ pc[p] = "sort"
  /\ IF Len(ids[p]) = 0
       THEN UNCHANGED <<out, ranks, distances, ids>>
       ELSE \E permutation \in SortObjects(ids[p]) :
              /\ ids' = [ids EXCEPT ![p] = ApplyPermutation(permutation, @)]
              /\ out' = [out EXCEPT ![p] = ApplyPermutation(permutation, @)]
              /\ ranks' = [ranks EXCEPT ![p] =
                             ApplyPermutation(permutation, @)]
              /\ distances' =
                   IF with_distances[p]
                     THEN [distances EXCEPT ![p] =
                             ApplyPermutation(permutation, @)]
                     ELSE distances
  /\ pc' = [pc EXCEPT ![p] = IF with_distances[p] THEN "filter" ELSE "done"]
  /\ UNCHANGED <<unitVars, inputVars, sendcounts, distributor, chan, sent,
                 fwdVars, resVars, result_offset>>

\* sortResults(space, ids, indices, ranks[, distances]), lines 99-128
SortResults(p) ==
  /\ pc[p] = "sort"
  /\ IF Len(ids[p]) = 0
       THEN UNCHANGED <<out, ranks, distances>>
       ELSE \E permutation \in SortObjects(ids[p]) :
              /\ out' = [out EXCEPT ![p] = ApplyPermutation(permutation, @)]
              /\ ranks' = [ranks EXCEPT ![p] =
                             ApplyPermutation(permutation, @)]
              /\ distances' =
                   IF with_distances[p]
                     THEN [distances EXCEPT ![p] =
                             ApplyPermutation(permutation, @)]
                     ELSE distances
  /\ pc' = [pc EXCEPT ![p] = IF with_distances[p] THEN "filter" ELSE "done"]
  /\ UNCHANGED <<unitVars, inputVars, sendcounts, distributor, chan, sent,
                 fwdVars, resVars,
                 ids, result_offset>>

\* filterResults(space, queries, distances, indices, offset, ranks)
FilterResults(p) ==
  /\ pc[p] = "filter"
  /\ \E choice \in TruncateChoices(queries[p], result_offset[p], out[p],
                                   ranks[p], distances[p]) :
       LET new_offset == NewOffset(queries[p], result_offset[p]) IN
         /\ out' = [out EXCEPT ![p] = Emit(out[p], choice, new_offset)]
         /\ ranks' = [ranks EXCEPT ![p] = Emit(ranks[p], choice, new_offset)]
         /\ result_offset' = [result_offset EXCEPT ![p] = new_offset]
  /\ pc' = [pc EXCEPT ![p] = "done"]
  /\ UNCHANGED <<unitVars, inputVars, sendcounts, distributor, chan, sent,
                 fwdVars, resVars,
                 ids, distances>>

\* ------------------------------------------------------------ the round
\* CSR offsets of a list of lists, as countResults builds them
OffsetsOf(lists) ==
  ExclusiveScan([q \in 1 .. (Len(lists) + 1) |->
                   IF q <= Len(lists) THEN Len(lists[q]) ELSE 0])

\* No plan, no message, nothing forwarded and nothing found yet
IdleNetwork ==
  /\ sendcounts = [g \in {"fq", "crb"} |-> [p \in Procs |-> <<>>]]
  /\ distributor = [p \in Procs |-> NoPlan]
  /\ chan = [s \in Procs |-> [d \in Procs |-> <<>>]]
  /\ sent = [p \in Procs |->
               [e \in PostStages |-> [exports |-> <<>>, dests |-> <<>>]]]
  /\ fwd_queries = [p \in Procs |-> <<>>]
  /\ fwd_ids = [p \in Procs |-> <<>>]
  /\ fwd_ranks = [p \in Procs |-> <<>>]
  /\ res_offset = [p \in Procs |-> <<0>>]
  /\ res_out = [p \in Procs |-> <<>>]
  /\ res_distances = [p \in Procs |-> <<>>]
  /\ result_offset = [p \in Procs |-> <<0>>]

\* countResults is not running
CountUnused ==
  /\ count_n_queries = 0
  /\ count_query_ids = <<>>
  /\ count_offset = <<0>>
  /\ count_pending = {}
  /\ count_pc = "done"

\* No PermutedData is in use
PermutedUnused ==
  /\ data = <<>>
  /\ permute = <<>>
  /\ attach_indices = FALSE
  /\ last_call = [op |-> "none", index |-> 0, result |-> 0]

\* sendAcrossNetwork is not being called on its own
SendUnused ==
  /\ send_pc = "idle"
  /\ send_exports = <<>>
  /\ send_imports = [extents |-> <<>>, items |-> <<>>]
  /\ send_plan = [send |-> 0, receive |-> 0]
  /\ send_posted = FALSE

\* No exchange is followed message by message
ExchangeUnused ==
  /\ ex_pc = <<>>
  /\ ex_dests = <<>>
  /\ ex_net = {}
  /\ ex_sent = <<>>
  /\ ex_staging = <<>>
  /\ ex_imports = <<>>

\* filterResults is not followed item by item
FilterUnused ==
  /\ flt_pc = "idle"
  /\ flt_new_offset = <<>>
  /\ flt_new_indices = <<>>
  /\ flt_new_ranks = <<>>
  /\ flt_unit = <<>>
  /\ flt_scratch = <<>>
  /\ flt_written = <<>>

UnitsIdle ==
  /\ CountUnused
  /\ PermutedUnused
  /\ SendUnused
  /\ ExchangeUnused
  /\ FilterUnused

\* Everything but the inputs, before any process has started
Idle ==
  /\ IdleNetwork
  /\ UnitsIdle
  /\ pc = [p \in Procs |-> "fq_plan"]
  /\ out = [p \in Procs |-> <<>>]
  /\ ranks = [p \in Procs |-> <<>>]
  /\ ids = [p \in Procs |-> <<>>]
  /\ distances = [p \in Procs |-> <<>>]

\* The inputs of forwardQueries on every process: dl[p][q] is the destination
\* list of query q of process p, kk[p][q] its k
Inputs(dl, kk) ==
  /\ queries = [p \in Procs |->
                  [q \in 1 .. Len(dl[p]) |->
                     [tag |-> <<p, q - 1>>, k |-> kk[p][q]]]]
  /\ indices = [p \in Procs |-> Flatten(dl[p])]
  /\ offset = [p \in Procs |-> OffsetsOf(dl[p])]

\* The round's own inputs: every process holds up to MaxQueries queries, each
\* with up to MaxDest destinations.  The exchange never inspects k.
Init ==
  /\ comm_size \in 1 .. MaxProcs
  /\ with_distances \in {[p \in Procs |-> b] : b \in BOOLEAN}
  /\ \E dl \in [Procs -> SeqsUpTo(SeqsUpTo(Procs, MaxDest), MaxQueries)] :
       /\ SumSeq([i \in 1 .. comm_size |-> Len(Flatten(dl[i - 1]))])
            <= MaxItems
       /\ Inputs(dl, [p \in Procs |-> [q \in 1 .. Len(dl[p]) |-> 1]])
  /\ Idle

Next ==
  \/ \E p \in Procs : ForwardQueriesCreatePlan(p)
  \/ \E p \in Procs : CreateFromSendsReturn(p)
  \/ \E p \in Procs : SendAcrossNetworkPost(p)
  \/ \E p \in Procs : SendAcrossNetworkReturn(p)
  \/ \E p \in Procs : LocalSearch(p)
  \/ \E p \in Procs : CommunicateResultsBackCreatePlan(p)

Spec == Init /\ [][Next]_vars

\* --------------------------------------------- the nearest-neighbour round
\* The scenario of the specification: 4 processes, process 0 issues one
\* 3-nearest query whose candidate owners are processes 1 and 3; process 1
\* finds candidates at distances 1.0 and 4.0, process 3 at 2.0 and 0.5
\* (in halves: 2 and 8, 4 and 1).
KnnCandidates(p) ==
  CASE p = 1 -> <<2, 8>>
    [] p = 3 -> <<4, 1>>
    [] OTHER -> <<>>

InitKnn ==
  /\ comm_size = 4
  /\ with_distances = [p \in Procs |-> TRUE]
  /\ Inputs([p \in Procs |-> IF p = 0 THEN <<(<<1, 3>>)>> ELSE <<>>],
            [p \in Procs |-> IF p = 0 THEN <<3>> ELSE <<>>])
  /\ Idle

\* The local search of the scenario: every forwarded query finds the
\* process's candidates, reported in either order
KnnSearch(p) ==
  /\ pc[p] = "search"
  /\ LET n == Len(KnnCandidates(p))
         off == [q \in 1 .. (Len(fwd_queries[p]) + 1) |-> n * (q - 1)]
     IN
       /\ res_offset' = [res_offset EXCEPT ![p] = off]
       /\ res_out' = [res_out EXCEPT ![p] =
                        [i \in 1 .. LastElement(off) |-> i - 1]]
       /\ \E order \in Perms(1 .. n) :
            res_distances' =
              [res_distances EXCEPT ![p] =
                 [i \in 1 .. LastElement(off) |->
                    KnnCandidates(p)[order[((i - 1) % n) + 1]]]]
  /\ out' = [out EXCEPT ![p] = res_out'[p]]
  /\ distances' = [distances EXCEPT ![p] = res_distances'[p]]
  /\ ranks' = [ranks EXCEPT ![p] = fwd_ranks[p]]
  /\ ids' = [ids EXCEPT ![p] = fwd_ids[p]]
  /\ pc' = [pc EXCEPT ![p] = "crb_plan"]
  /\ UNCHANGED <<unitVars, inputVars, sendcounts, distributor, chan, sent,
                 fwdVars,
                 result_offset>>

NextKnn ==
  \/ \E p \in Procs : ForwardQueriesCreatePlan(p)
  \/ \E p \in Procs : CreateFromSendsReturn(p)
  \/ \E p \in Procs : SendAcrossNetworkPost(p)
  \/ \E p \in Procs : SendAcrossNetworkReturn(p)
  \/ \E p \in Procs : KnnSearch(p)
  \/ \E p \in Procs : CommunicateResultsBackCreatePlan(p)
  \/ \E p \in Procs : CountResults(p)
  \/ \E p \in Procs : SortResults(p)
  \/ \E p \in Procs : FilterResults(p)

SpecKnn == InitKnn /\ [][NextKnn]_vars

\* ------------------------------------------------------- the merge step
\* countResults, sortResults and filterResults applied on one origin
\* (process 0) to any gathered result list: ids[i] is the query of result i,
\* out[i] its candidate index, ranks[i] its owner, distances[i] its distance.
\* The owners take turns, so that neighbouring results differ in rank.
InitMerge ==
  /\ comm_size = MaxProcs
  /\ with_distances = [p \in Procs |-> TRUE]
  /\ indices = [p \in Procs |-> <<>>]
  /\ offset = [p \in Procs |-> <<0>>]
  /\ IdleNetwork
  /\ UnitsIdle
  /\ \E kk \in SeqsUpTo(1 .. MaxK, MaxQueries) :
       queries = [p \in Procs |->
                    IF p = 0
                      THEN [q \in 1 .. Len(kk) |->
                              [tag |-> <<0, q - 1>>, k |-> kk[q]]]
                      ELSE <<>>]
  /\ \E m \in 0 .. MaxGathered :
       \E idv \in [1 .. m -> 0 .. (Len(queries[0]) - 1)],
          dsv \in [1 .. m -> 1 .. MaxDist] :
            /\ ids = [p \in Procs |-> IF p = 0 THEN idv ELSE <<>>]
            /\ ranks = [p \in Procs |->
                          IF p = 0
                            THEN [i \in 1 .. m |-> (i - 1) % comm_size]
                            ELSE <<>>]
            /\ distances = [p \in Procs |-> IF p = 0 THEN dsv ELSE <<>>]
            /\ out = [p \in Procs |->
                        IF p = 0 THEN [i \in 1 .. m |-> i - 1] ELSE <<>>]
  /\ pc = [p \in Procs |-> IF p = 0 THEN "gathered" ELSE "done"]

NextMerge ==
  \/ \E p \in Procs : CountResults(p)
  \/ \E p \in Procs : SortResults(p)
  \/ \E p \in Procs : FilterResults(p)

SpecMerge == InitMerge /\ [][NextMerge]_vars

\* ------------------------------------------- countResults, item by item
\* The parallel_for of countResults runs its nnz items in any order and
\* concurrently; every item is one atomic increment, so an execution is an
\* interleaving of the items.  The fence of Kokkos between two kernels of one
\* execution space makes the scan start when no item is left.
RoundUnused ==
  /\ comm_size = 1
  /\ with_distances = FALSE
  /\ Inputs([p \in 0 .. 0 |-> <<>>], [p \in 0 .. 0 |-> <<>>])
  /\ IdleNetwork
  /\ pc = [p \in Procs |-> "fq_plan"]
  /\ out = [p \in Procs |-> <<>>]
  /\ ranks = [p \in Procs |-> <<>>]
  /\ ids = [p \in Procs |-> <<>>]
  /\ distances = [p \in Procs |-> <<>>]

\* The caller's offset view holds anything before the call
InitCount ==
  /\ RoundUnused
  /\ PermutedUnused
  /\ SendUnused
  /\ ExchangeUnused
  /\ FilterUnused
  /\ count_n_queries \in 0 .. MaxQueries
  /\ count_query_ids \in SeqsUpTo(0 .. (count_n_queries - 1), MaxNnz)
  /\ count_offset \in SeqsUpTo(0 .. 1, MaxQueries + 1)
  /\ count_pending = {}
  /\ count_pc = "realloc"

\* Kokkos::realloc(offset, n_queries + 1), then the parallel_for is launched
CountResultsRealloc ==
  /\ count_pc = "realloc"
  /\ count_offset' = Zeros(count_n_queries + 1)
  /\ count_pending' = 0 .. (Len(count_query_ids) - 1)
  /\ count_pc' = "count"
  /\ UNCHANGED <<roundVars, filterVars, permutedVars, sendVars, exchangeVars, count_n_queries,
                 count_query_ids>>

\* Item i of the parallel_for
CountResultsItem(i) ==
  /\ count_pc = "count"
  /\ i \in count_pending
  /\ count_offset' = AtomicIncrement(count_offset, At(count_query_ids, i))
  /\ count_pending' = count_pending \ {i}
  /\ UNCHANGED <<roundVars, filterVars, permutedVars, sendVars, exchangeVars, count_n_queries,
                 count_query_ids,
                 count_pc>>

\* exclusive_scan(space, offset, offset)
CountResultsScan ==
  /\ count_pc = "count"
  /\ count_pending = {}
  /\ count_offset' = ExclusiveScan(count_offset)
  /\ count_pc' = "done"
  /\ UNCHANGED <<roundVars, filterVars, permutedVars, sendVars, exchangeVars, count_n_queries,
                 count_query_ids,
                 count_pending>>

NextCount ==
  \/ CountResultsRealloc
  \/ \E i \in 0 .. (MaxNnz - 1) : CountResultsItem(i)
  \/ CountResultsScan

SpecCount == InitCount /\ [][NextCount]_vars

\* ------------------------------------------------------------ PermutedData
\* PermutedData::operator()(int i)
PermutedCall(d, perm, i) == At(d, At(perm, i))

\* PermutedData::size()
PermutedSize(d, perm) == Len(d)

\* attach(predicate, data) of ArborX_Predicates.hpp: the predicate together with the datum
Attach(predicate, datum) == [pred |-> predicate, data |-> datum]

\* AccessTraits<PermutedData, PredicatesTag>::size(x)
TraitsSize(d, perm) == Len(d)

\* Faulty variant of TraitsGet: the position in the data is attached
TraitsGetPermutedIndex(d, perm, attached, index) ==
  LET permuted_index == At(perm, index)
  IN  IF attached THEN Attach(At(d, permuted_index), permuted_index)
      ELSE At(d, permuted_index)

\* AccessTraits<PermutedData, PredicatesTag>::get(x, index), both overloads
TraitsGet(d, perm, attached, index) ==
  LET permuted_index == At(perm, index)
  IN  IF attached THEN Attach(At(d, permuted_index), index)
      ELSE At(d, permuted_index)

\* The predicate stored at position j of the wrapped container
Predicate(j) == <<"predicate", j>>

\* PermutedData{data, permute}: two views of any extents, every entry of the
\* permutation a position of the data
InitPermuted ==
  /\ RoundUnused
  /\ CountUnused
  /\ SendUnused
  /\ ExchangeUnused
  /\ FilterUnused
  /\ \E n \in 0 .. MaxData : data = [j \in 1 .. n |-> Predicate(j - 1)]
  /\ permute \in SeqsUpTo(0 .. (Len(data) - 1), MaxPermute)
  /\ attach_indices \in BOOLEAN
  /\ last_call = [op |-> "none", index |-> 0, result |-> 0]

CallSize ==
  /\ last_call' = [op |-> "size", index |-> 0,
                   result |-> PermutedSize(data, permute)]
  /\ UNCHANGED <<roundVars, filterVars, countVars, sendVars, exchangeVars, data, permute,
                 attach_indices>>

CallTraitsSize ==
  /\ last_call' = [op |-> "traits_size", index |-> 0,
                   result |-> TraitsSize(data, permute)]
  /\ UNCHANGED <<roundVars, filterVars, countVars, sendVars, exchangeVars, data, permute,
                 attach_indices>>

\* x(i), for a logical index the permutation has
CallOperator(i) ==
  /\ i < Len(permute)
  /\ last_call' = [op |-> "call", index |-> i,
                   result |-> PermutedCall(data, permute, i)]
  /\ UNCHANGED <<roundVars, filterVars, countVars, sendVars, exchangeVars, data, permute,
                 attach_indices>>

\* AccessTraits::get(x, index), for a logical index the permutation has
CallTraitsGet(index) ==
  /\ index < Len(permute)
  /\ last_call' = [op |-> "get", index |-> index,
                   result |-> TraitsGet(data, permute, attach_indices, index)]
  /\ UNCHANGED <<roundVars, filterVars, countVars, sendVars, exchangeVars, data, permute,
                 attach_indices>>

NextPermuted ==
  \/ CallSize
  \/ CallTraitsSize
  \/ \E i \in 0 .. (MaxPermute - 1) : CallOperator(i)
  \/ \E index \in 0 .. (MaxPermute - 1) : CallTraitsGet(index)

SpecPermuted == InitPermuted /\ [][NextPermuted]_vars

\* ------------------------------------------ sendAcrossNetwork, one call
\* One call of sendAcrossNetwork with views of any extents against a plan of
\* any total send and receive length.
\* The packet shapes tried: extents 1..7 all 1, or one of them 2
PacketExtents == {[d \in 1 .. 7 |-> IF d = k THEN 2 ELSE 1] : k \in 0 .. 7}

\* The contents of imports before the call
Stale(n) == [i \in 1 .. n |-> "stale"]

\* What the transport writes into the staging buffer
Received(n) == [i \in 1 .. n |-> "received"]

\* Faulty variant of AssertedExtents: the last dimension is not compared
AssertedExtentsButLast(exports_extent, imports_extent, plan) ==
  /\ At(exports_extent, 0) = plan.send
  /\ At(imports_extent, 0) = plan.receive
  /\ \A d \in 1 .. 6 : At(exports_extent, d) = At(imports_extent, d)

\* The condition of the ARBORX_ASSERT of lines 40-48
AssertedExtents(exports_extent, imports_extent, plan) ==
  /\ At(exports_extent, 0) = plan.send
  /\ At(imports_extent, 0) = plan.receive
  /\ At(exports_extent, 1) = At(imports_extent, 1)
  /\ At(exports_extent, 2) = At(imports_extent, 2)
  /\ At(exports_extent, 3) = At(imports_extent, 3)
  /\ At(exports_extent, 4) = At(imports_extent, 4)
  /\ At(exports_extent, 5) = At(imports_extent, 5)
  /\ At(exports_extent, 6) = At(imports_extent, 6)
  /\ At(exports_extent, 7) = At(imports_extent, 7)

InitSend ==
  /\ RoundUnused
  /\ CountUnused
  /\ PermutedUnused
  /\ ExchangeUnused
  /\ FilterUnused
  /\ send_pc = "call"
  /\ \E n \in 0 .. MaxExtent, shape \in PacketExtents :
       send_exports = <<n>> \o shape
  /\ \E n \in 0 .. MaxExtent, shape \in PacketExtents :
       send_imports = [extents |-> <<n>> \o shape, items |-> Stale(n)]
  /\ send_plan \in [send : 0 .. MaxExtent, receive : 0 .. MaxExtent]
  /\ send_posted = FALSE

\* ARBORX_ASSERT(...): a failed assertion ends the call
SendAcrossNetworkAssert ==
  /\ send_pc = "call"
  /\ send_pc' = IF AssertedExtents(send_exports, send_imports.extents,
                                   send_plan)
                  THEN "exchange" ELSE "assert_failed"
  /\ UNCHANGED <<roundVars, filterVars, countVars, permutedVars, exchangeVars, send_exports,
                 send_imports, send_plan, send_posted>>

\* doPostsAndWaits, then the copy of the staging buffer into imports
SendAcrossNetworkExchange ==
  /\ send_pc = "exchange"
  /\ send_posted' = TRUE
  /\ send_imports' = [send_imports EXCEPT
                        !.items = DeepCopy(At(send_imports.extents, 0),
                                           Received(send_plan.receive))]
  /\ send_pc' = "returned"
  /\ UNCHANGED <<roundVars, filterVars, countVars, permutedVars, exchangeVars, send_exports, send_plan>>

NextSend ==
  \/ SendAcrossNetworkAssert
  \/ SendAcrossNetworkExchange

SpecSend == InitSend /\ [][NextSend]_vars

\* ------------------------------------- one exchange, message by message
\* One call of sendAcrossNetwork on every process of a group, followed
\* message by message: doPostsAndWaits posts one send per destination and one
\* receive per source, the transport delivers the messages one at a time
\* into the staging buffer import_buffer, and doPostsAndWaits returns on a
\* process when all its receives and sends have completed.  After that the
\* staging buffer is copied into imports.  (The round above takes the
\* delivery to one process as a single step.)
\* Item k of the export buffer of process s
ExchangeExports(s) == [k \in 1 .. Len(ex_dests[s]) |-> <<s, k>>]

\* Number of items d receives from the ranks below s: where the block of s
\* starts in the staging buffer of d
BlockStart(s, d) ==
  SumSeq([i \in 1 .. s |-> Len(Positions(ex_dests[i - 1], d))])

ExchangeReceiveLength(d) == BlockStart(comm_size, d)

\* create_layout_right_mirror_view_no_init: the staging buffer starts with
\* whatever the memory holds
Uninitialized(n) == [i \in 1 .. n |-> "garbage"]

\* The staging buffer of d once the message of s has been written into it
WriteBlock(staging, s, d) ==
  [i \in 1 .. Len(staging) |->
     IF BlockStart(s, d) < i /\ i <= BlockStart(s + 1, d)
       THEN Block(ExchangeExports(s), ex_dests[s], d)[i - BlockStart(s, d)]
       ELSE staging[i]]

Message(s, d) == [src |-> s, dst |-> d]

\* The message of s to d has been delivered
Delivered(s, d) == ex_pc[s] # "call" /\ Message(s, d) \notin ex_net

\* All receives and sends of process p have completed
WaitsComplete(p) ==
  /\ \A s \in Procs : Positions(ex_dests[s], p) # <<>> => Delivered(s, p)
  /\ \A d \in Procs : Positions(ex_dests[p], d) # <<>> => d \in ex_sent[p]

InitExchange ==
  /\ comm_size \in 1 .. MaxProcs
  /\ with_distances = [p \in Procs |-> FALSE]
  /\ Inputs([p \in Procs |-> <<>>], [p \in Procs |-> <<>>])
  /\ IdleNetwork
  /\ pc = [p \in Procs |-> "fq_plan"]
  /\ out = [p \in Procs |-> <<>>]
  /\ ranks = [p \in Procs |-> <<>>]
  /\ ids = [p \in Procs |-> <<>>]
  /\ distances = [p \in Procs |-> <<>>]
  /\ CountUnused
  /\ PermutedUnused
  /\ SendUnused
  /\ FilterUnused
  /\ ex_pc = [p \in Procs |-> "call"]
  /\ ex_dests \in [Procs -> SeqsUpTo(Procs, MaxExtent)]
  /\ ex_net = {}
  /\ ex_sent = [p \in Procs |-> {}]
  /\ ex_staging = [p \in Procs |-> Uninitialized(ExchangeReceiveLength(p))]
  /\ ex_imports = [p \in Procs |-> Stale(ExchangeReceiveLength(p))]

\* doPostsAndWaits posts the sends and receives of process p
ExchangePost(p) ==
  /\ ex_pc[p] = "call"
  /\ ex_net' = ex_net \cup {Message(p, d) : d \in
                              {d \in Procs : Positions(ex_dests[p], d) # <<>>}}
  /\ ex_pc' = [ex_pc EXCEPT ![p] = "waiting"]
  /\ UNCHANGED <<roundVars, filterVars, countVars, permutedVars, sendVars, ex_dests,
                 ex_sent, ex_staging, ex_imports>>

\* The transport takes the message of s to d off the send buffer before it
\* delivers it: the send of s completes
ExchangeSendCompletes(s, d) ==
  /\ Message(s, d) \in ex_net
  /\ d \notin ex_sent[s]
  /\ ex_sent' = [ex_sent EXCEPT ![s] = @ \cup {d}]
  /\ UNCHANGED <<roundVars, filterVars, countVars, permutedVars, sendVars, ex_pc,
                 ex_dests, ex_net, ex_staging, ex_imports>>

\* The message of s to d arrives in the receive d has posted
ExchangeDeliver(s, d) ==
  /\ Message(s, d) \in ex_net
  /\ ex_pc[d] = "waiting"
  /\ ex_net' = ex_net \ {Message(s, d)}
  /\ ex_sent' = [ex_sent EXCEPT ![s] = @ \cup {d}]
  /\ ex_staging' = [ex_staging EXCEPT ![d] = WriteBlock(@, s, d)]
  /\ UNCHANGED <<roundVars, filterVars, countVars, permutedVars, sendVars, ex_pc,
                 ex_dests, ex_imports>>

\* Faulty variant of ExchangeReturn: the copy does not wait for the exchange
ExchangeReturnEarly(p) ==
  /\ ex_pc[p] = "waiting"
  /\ ex_imports' = [ex_imports EXCEPT
                      ![p] = DeepCopy(Len(ex_imports[p]), ex_staging[p])]
  /\ ex_pc' = [ex_pc EXCEPT ![p] = "returned"]
  /\ UNCHANGED <<roundVars, filterVars, countVars, permutedVars, sendVars, ex_dests,
                 ex_net, ex_sent, ex_staging>>

\* doPostsAndWaits returns on p; the staging buffer is copied into imports
\* and sendAcrossNetwork returns to the caller, who rebinds its view
ExchangeReturn(p) ==
  /\ ex_pc[p] = "waiting"
  /\ WaitsComplete(p)
  /\ ex_imports' = [ex_imports EXCEPT
                      ![p] = DeepCopy(Len(ex_imports[p]), ex_staging[p])]
  /\ ex_pc' = [ex_pc EXCEPT ![p] = "returned"]
  /\ UNCHANGED <<roundVars, filterVars, countVars, permutedVars, sendVars, ex_dests,
                 ex_net, ex_sent, ex_staging>>

NextExchange ==
  \/ \E p \in Procs : ExchangePost(p)
  \/ \E s, d \in Procs : ExchangeSendCompletes(s, d)
  \/ \E s, d \in Procs : ExchangeDeliver(s, d)
  \/ \E p \in Procs : ExchangeReturn(p)

SpecExchange == InitExchange /\ [][NextExchange]_vars

\* ------------------------------------------------- the round, scheduled
\* A step of process p in the round
RoundStep(p) ==
  /\ p \in Procs
  /\ \/ ForwardQueriesCreatePlan(p)
     \/ CreateFromSendsReturn(p)
     \/ SendAcrossNetworkPost(p)
     \/ SendAcrossNetworkReturn(p)
     \/ LocalSearch(p)
     \/ CommunicateResultsBackCreatePlan(p)

\* The rounds that are followed to their end: every process holds up to
\* MaxFairQueries queries and decides on its own whether it passes distances
InitFair ==
  /\ comm_size \in 1 .. MaxProcs
  /\ with_distances \in [Procs -> BOOLEAN]
  /\ \E dl \in [Procs -> SeqsUpTo(SeqsUpTo(Procs, MaxDest), MaxFairQueries)] :
       /\ SumSeq([i \in 1 .. comm_size |-> Len(Flatten(dl[i - 1]))])
            <= MaxItems
       /\ Inputs(dl, [p \in Procs |-> [q \in 1 .. Len(dl[p]) |-> 1]])
  /\ Idle

\* Every process is an operating-system process of its own and the transport
\* makes progress: a process that can take a step eventually takes one
SpecFair ==
  /\ InitFair
  /\ [][Next]_vars
  /\ \A p \in 0 .. (MaxProcs - 1) : WF_vars(RoundStep(p))

\* --------------------------------------------- the round with more items
\* Rounds with up to MaxContigItems forwarded items, so that one process can
\* receive several items of one sender next to items of another one.  The
\* local search finds one candidate for every forwarded query.
InitContig ==
  /\ comm_size = MaxProcs
  /\ with_distances = [p \in Procs |-> FALSE]
  /\ \E dl \in [Procs -> SeqsUpTo(SeqsUpTo(Procs, MaxDest), MaxQueries)] :
       /\ SumSeq([i \in 1 .. comm_size |-> Len(Flatten(dl[i - 1]))])
            <= MaxContigItems
       /\ Inputs(dl, [p \in Procs |-> [q \in 1 .. Len(dl[p]) |-> 1]])
  /\ Idle

EchoSearch(p) ==
  /\ pc[p] = "search"
  /\ LET n == Len(fwd_queries[p]) IN
       /\ res_offset' = [res_offset EXCEPT ![p] = [q \in 1 .. (n + 1) |-> q - 1]]
       /\ res_out' = [res_out EXCEPT ![p] = [i \in 1 .. n |-> i - 1]]
       /\ res_distances' = [res_distances EXCEPT ![p] = [i \in 1 .. n |-> 1]]
  /\ out' = [out EXCEPT ![p] = res_out'[p]]
  /\ distances' = [distances EXCEPT ![p] = res_distances'[p]]
  /\ ranks' = [ranks EXCEPT ![p] = fwd_ranks[p]]
  /\ ids' = [ids EXCEPT ![p] = fwd_ids[p]]
  /\ pc' = [pc EXCEPT ![p] = "crb_plan"]
  /\ UNCHANGED <<unitVars, inputVars, sendcounts, distributor, chan, sent,
                 fwdVars, result_offset>>

NextContig ==
  \/ \E p \in Procs : ForwardQueriesCreatePlan(p)
  \/ \E p \in Procs : CreateFromSendsReturn(p)
  \/ \E p \in Procs : SendAcrossNetworkPost(p)
  \/ \E p \in Procs : SendAcrossNetworkReturn(p)
  \/ \E p \in Procs : EchoSearch(p)
  \/ \E p \in Procs : CommunicateResultsBackCreatePlan(p)

SpecContig == InitContig /\ [][NextContig]_vars

\* ================================================================== claims
ProgramOrder ==
  <<"fq_plan", "fq_plan_wait", "fq_ranks", "fq_ranks_wait", "fq_queries",
    "fq_queries_wait", "fq_ids", "fq_ids_wait", "search", "crb_plan",
    "crb_plan_wait", "crb_ranks", "crb_ranks_wait", "crb_ids", "crb_ids_wait",
    "crb_out", "crb_out_wait", "crb_distances", "crb_distances_wait",
    "gathered", "sort", "filter", "done">>

PcIndex(stage) == CHOOSE i \in 1 .. Len(ProgramOrder) : ProgramOrder[i] = stage

\* Process p has executed the statement at stage
Past(p, stage) == PcIndex(pc[p]) > PcIndex(stage)

\* forwardQueries has returned on p
Forwarded(p) == Past(p, "fq_ids_wait")

\* communicateResultsBack has returned on p and nothing was merged yet
Gathered(p) == pc[p] = "gathered"

\* Positions (0-based) of the export buffer of s that belong to query q
Slice(off, q) == At(off, q) .. (At(off, q + 1) - 1)

\* C1 (forward/gather symmetry): every result that reaches process A after
\* communicateResultsBack was produced on the process B = ranks[i] for a
\* forwarded query that B received from A with original id ids[i], and that
\* forwarded query is A's query number ids[i].  (out[i] is the position of
\* the result in B's local result list, which identifies the forwarded
\* query it answers.)
C1_ForwardGatherSymmetry ==
  \A A \in Procs :
     Gathered(A) =>
       \A i \in 1 .. Len(ids[A]) :
          LET B == ranks[A][i]
              j == BatchOf(res_offset[B], out[A][i])
              q == ids[A][i]
          IN /\ At(fwd_ranks[B], j) = A
             /\ At(fwd_ids[B], j) = q
             /\ q \in 0 .. (Len(queries[A]) - 1)
             /\ At(fwd_queries[B], j) = At(queries[A], q)

\* A result came back to A from another process for A's second query
C1_Witness ==
  \E A \in Procs :
     /\ Gathered(A)
     /\ \E i \in 1 .. Len(ids[A]) : ranks[A][i] # A /\ ids[A][i] = 1

\* C3 (forwarded-payload alignment): once forwardQueries has returned on p,
\* the three outputs have one length and position i of each stems from one
\* (query, destination) pair of one sender: fwd_ranks[i] is the sender s,
\* fwd_ids[i] a query q of s that lists p as a destination, fwd_queries[i]
\* is queries(q) of s; and (s, q) occurs as often as q lists p.
C3_ForwardedAlignment ==
  \A p \in Procs :
     Forwarded(p) =>
       /\ Len(fwd_queries[p]) = Len(fwd_ranks[p])
       /\ Len(fwd_ids[p]) = Len(fwd_ranks[p])
       /\ \A i \in 1 .. Len(fwd_ranks[p]) :
            LET s == fwd_ranks[p][i]
                q == fwd_ids[p][i]
            IN /\ s \in Procs
               /\ q \in 0 .. (Len(queries[s]) - 1)
               /\ fwd_queries[p][i] = At(queries[s], q)
               /\ \E e \in Slice(offset[s], q) : At(indices[s], e) = p
       /\ \A s \in Procs : \A q \in 0 .. (Len(queries[s]) - 1) :
            Cardinality({i \in 1 .. Len(fwd_ranks[p]) :
                           fwd_ranks[p][i] = s /\ fwd_ids[p][i] = q})
              = Cardinality({e \in Slice(offset[s], q) :
                               At(indices[s], e) = p})

\* A process received forwarded queries from two senders, one of them the
\* sender's second query
C3_Witness ==
  \E p \in Procs :
     /\ Forwarded(p)
     /\ \E i, j \in 1 .. Len(fwd_ranks[p]) :
          fwd_ranks[p][i] # fwd_ranks[p][j] /\ fwd_ids[p][i] = 1

\* C4 (gathered-payload alignment): once communicateResultsBack has returned
\* on the origin A, out, ranks, ids and (if passed) distances have one length
\* and position i of each describes one result: candidate out[i] of process
\* ranks[i], found for a forwarded query that came from A, tagged with that
\* forwarded query's id and carrying that candidate's distance.  Every
\* forwarded query answered for A contributes each of its
\* offset(q+1)-offset(q) results exactly once.
C4_GatheredAlignment ==
  \A A \in Procs :
     Gathered(A) =>
       /\ Len(ranks[A]) = Len(out[A])
       /\ Len(ids[A]) = Len(out[A])
       /\ with_distances[A] => Len(distances[A]) = Len(out[A])
       /\ \A i \in 1 .. Len(out[A]) :
            LET B == ranks[A][i]
                r == out[A][i]
            IN /\ B \in Procs
               /\ r \in 0 .. (LastElement(res_offset[B]) - 1)
               /\ At(fwd_ranks[B], BatchOf(res_offset[B], r)) = A
               /\ ids[A][i] = At(fwd_ids[B], BatchOf(res_offset[B], r))
               /\ with_distances[A] =>
                    distances[A][i] = At(res_distances[B], r)
       /\ \A B \in Procs : \A q \in 0 .. (Len(fwd_ranks[B]) - 1) :
            At(fwd_ranks[B], q) = A =>
              \A r \in Slice(res_offset[B], q) :
                 Cardinality({i \in 1 .. Len(out[A]) :
                                ranks[A][i] = B /\ out[A][i] = r}) = 1

\* Two results of another process with different distances reached the origin
C4_Witness ==
  \E A \in Procs :
     /\ Gathered(A)
     /\ with_distances[A]
     /\ \E i, j \in 1 .. Len(out[A]) :
          /\ ranks[A][i] = ranks[A][j]
          /\ ranks[A][i] # A
          /\ distances[A][i] # distances[A][j]

\* The view a process rebinds to the imports of exchange e
ImportsOf(d, e) ==
  CASE e = "fq_ranks" -> fwd_ranks[d]
    [] e = "fq_queries" -> fwd_queries[d]
    [] e = "fq_ids" -> fwd_ids[d]
    [] e = "crb_ranks" -> ranks[d]
    [] e = "crb_ids" -> ids[d]
    [] e = "crb_out" -> out[d]
    [] e = "crb_distances" -> distances[d]

\* Process d has just returned from exchange e: its next statement is the
\* one that follows the call
JustReturned(d, e) ==
  pc[d] = CASE e = "fq_ranks" -> "fq_queries"
            [] e = "fq_queries" -> "fq_ids"
            [] e = "fq_ids" -> "search"
            [] e = "crb_ranks" -> "crb_ids"
            [] e = "crb_ids" -> "crb_out"
            [] e = "crb_out" ->
                 IF with_distances[d] THEN "crb_distances" ELSE "gathered"
            [] e = "crb_distances" ->
                 IF with_distances[d] THEN "gathered" ELSE "none"

\* Process d took part in exchange e and has returned from it
Returned(d, e) ==
  /\ Past(d, e \o "_wait")
  /\ e = "crb_distances" => with_distances[d]

\* Everything the processes exported to d in exchange e
ExportedTo(d, e) ==
  Flatten([i \in 1 .. comm_size |->
             Block(sent[i - 1][e].exports, sent[i - 1][e].dests, d)])

\* C7 (round-trip conservation): when a process d returns from an exchange
\* e, the items in d's import buffer are exactly the items the processes
\* exported to d, each once; and when all processes have returned from e, as
\* many items were exported as were imported.
C7_Conservation ==
  \A e \in PostStages :
     /\ \A d \in Procs :
          JustReturned(d, e) =>
            SeqToBag(ImportsOf(d, e)) = SeqToBag(ExportedTo(d, e))
     /\ (\A d \in Procs : Returned(d, e)) =>
          SumSeq([i \in 1 .. comm_size |-> Len(sent[i - 1][e].exports)])
            = SumSeq([i \in 1 .. comm_size |-> Len(ImportsOf(i - 1, e))])

\* All processes returned from an exchange in which one process imported
\* items of two senders
C7_Witness ==
  /\ \A d \in Procs : Returned(d, "crb_out")
  /\ \E d \in Procs : \E i, j \in 1 .. Len(ranks[d]) : ranks[d][i] # ranks[d][j]

\* The (index, rank) pairs found at the positions S of the flat buffers
PairsAt(idx, rks, S) ==
  LET f == CHOOSE f \in Perms(S) : TRUE
  IN SeqToBag([i \in 1 .. Cardinality(S) |-> <<idx[f[i]], rks[f[i]]>>])

\* What filterResults did on p for query q: it kept min(count, k) entries,
\* and they are the (index, rank) pairs of a set S of that many candidates
\* of q's input slice, none of which is farther than a candidate left out
TruncatedTo(p, q) ==
  LET off == result_offset[p]
      new_off == result_offset'[p]
      slice == (At(off, q) + 1) .. At(off, q + 1)
      kept == (At(new_off, q) + 1) .. At(new_off, q + 1)
  IN /\ Cardinality(kept) =
          IF Cardinality(slice) < At(queries[p], q).k
            THEN Cardinality(slice) ELSE At(queries[p], q).k
     /\ \E S \in SUBSET slice :
          /\ Cardinality(S) = Cardinality(kept)
          /\ \A i \in S : \A j \in slice \ S :
               distances[p][i] <= distances[p][j]
          /\ PairsAt(out'[p], ranks'[p], kept) = PairsAt(out[p], ranks[p], S)

\* C2 (truncation correctness): every filterResults step leaves, for every
\* query q, exactly min(offset(q+1)-offset(q), k(q)) entries in the slice
\* [new_offset(q), new_offset(q+1)), and they are the (index, rank) pairs of
\* the k(q) candidates of smallest distance of q's input slice, up to ties.
C2_TruncationCorrect ==
  [][\A p \in Procs :
       (pc[p] = "filter" /\ pc'[p] = "done") =>
         /\ Len(result_offset'[p]) = Len(queries[p]) + 1
         /\ \A q \in 0 .. (Len(queries[p]) - 1) : TruncatedTo(p, q)]_vars

\* filterResults returned after cutting a query that had more than k
\* candidates, two of them at different distances
C2_Witness ==
  \E p \in Procs :
     /\ pc[p] = "done"
     /\ \E q \in 0 .. (Len(queries[p]) - 1) :
          /\ Cardinality({i \in 1 .. Len(ids[p]) : ids[p][i] = q})
               > At(queries[p], q).k
          /\ \E i, j \in 1 .. Len(ids[p]) :
               /\ ids[p][i] = q
               /\ ids[p][j] = q
               /\ distances[p][i] # distances[p][j]

WellFormedCSR(off, n, total) ==
  /\ Len(off) = n + 1
  /\ off[1] = 0
  /\ \A i \in 1 .. n : off[i] <= off[i + 1]
  /\ off[n + 1] = total

\* Number of results of query q among the gathered ids
CountOf(idv, q) == Cardinality({i \in 1 .. Len(idv) : idv[i] = q})

\* C5 (CSR well-formedness): the offset countResults produces has length
\* n + 1, starts at 0, never decreases and ends at the number of query ids;
\* the offset filterResults produces has the same shape and ends at the
\* number of retained results, the sum over the queries of min(count, k).
C5_WellFormedOffsets ==
  \A p \in Procs :
     /\ pc[p] \in {"sort", "filter"} =>
          WellFormedCSR(result_offset[p], Len(queries[p]), Len(ids[p]))
     /\ (pc[p] = "done" /\ with_distances[p]) =>
          /\ WellFormedCSR(result_offset[p], Len(queries[p]), Len(out[p]))
          /\ Len(ranks[p]) = Len(out[p])
          /\ Len(out[p]) =
               SumSeq([q \in 1 .. Len(queries[p]) |->
                         IF CountOf(ids[p], q - 1) < queries[p][q].k
                           THEN CountOf(ids[p], q - 1) ELSE queries[p][q].k])

\* Both offsets were produced for two queries, the first of them without
\* results, and filterResults dropped a result
C5_Witness ==
  \E p \in Procs :
     /\ pc[p] = "done"
     /\ Len(queries[p]) = 2
     /\ CountOf(ids[p], 0) = 0
     /\ 0 < Len(out[p])
     /\ Len(out[p]) < Len(ids[p])

\* Distance of the candidate (index, rank), as its owner found it
DistanceOf(index, rank) == At(res_distances[rank], index)

\* C8 (ascending output order with owner tags): after the round and the
\* merge step on the origin p, the retained entries of every query are in
\* non-decreasing distance order and each entry's rank is the process that
\* found the candidate, for a query forwarded by p with that id.  In the
\* scenario, process 0 ends with the 3 candidates at distances 0.5, 1.0 and
\* 2.0, in this order, owned by ranks 3, 1 and 3.
C8_AscendingWithOwners ==
  \A p \in Procs :
     pc[p] = "done" =>
       /\ \A q \in 0 .. (Len(queries[p]) - 1) :
            \A i \in (At(result_offset[p], q) + 1) .. At(result_offset[p], q + 1) :
               /\ ranks[p][i] \in Procs
               /\ out[p][i] \in 0 .. (Len(res_distances[ranks[p][i]]) - 1)
               /\ At(fwd_ranks[ranks[p][i]],
                     BatchOf(res_offset[ranks[p][i]], out[p][i])) = p
               /\ At(fwd_ids[ranks[p][i]],
                     BatchOf(res_offset[ranks[p][i]], out[p][i])) = q
               /\ i < At(result_offset[p], q + 1) =>
                    DistanceOf(out[p][i], ranks[p][i])
                      <= DistanceOf(out[p][i + 1], ranks[p][i + 1])
       /\ p = 0 =>
            /\ result_offset[p] = <<0, 3>>
            /\ ranks[p] = <<3, 1, 3>>
            /\ [i \in 1 .. 3 |-> DistanceOf(out[p][i], ranks[p][i])]
                 = <<1, 2, 4>>

\* Process 0 has its final result, the owners having reported their
\* candidates in the scenario's order
C8_Witness ==
  /\ pc[0] = "done"
  /\ res_distances[1] = <<2, 8>>
  /\ res_distances[3] = <<4, 1>>
  /\ Len(out[0]) = 3

\* Items of the counting loop that have run and belong to query q
CountedFor(q) ==
  {i \in 0 .. (Len(count_query_ids) - 1) :
     i \notin count_pending /\ At(count_query_ids, i) = q}

\* C6 (countResults under concurrency): whatever the order in which the
\* items of the counting loop run, no increment is lost: while the loop runs
\* the counter of every query is the number of its items that have run; the
\* scan happens when no item is left; and once countResults has returned,
\* offset has n_queries + 1 entries, offset(q+1) - offset(q) is the number of
\* items i with query_ids(i) = q, and with n_queries = 0 offset is [0].
C6_CountResultsConcurrent ==
  /\ count_pc = "count" =>
       /\ Len(count_offset) = count_n_queries + 1
       /\ \A q \in 0 .. (count_n_queries - 1) :
            At(count_offset, q) = Cardinality(CountedFor(q))
       /\ At(count_offset, count_n_queries) = 0
  /\ count_pc = "done" =>
       /\ count_pending = {}
       /\ Len(count_offset) = count_n_queries + 1
       /\ At(count_offset, 0) = 0
       /\ \A q \in 0 .. (count_n_queries - 1) :
            At(count_offset, q + 1) - At(count_offset, q)
              = Cardinality({i \in 1 .. Len(count_query_ids) :
                               count_query_ids[i] = q})
  /\ count_pc = "done" /\ count_n_queries = 0 => count_offset = <<0>>

\* countResults has returned after two items of one query and an item of
\* another query ran, the later item of the input first
C6_Witness ==
  /\ count_pc = "done"
  /\ count_n_queries = 2
  /\ count_query_ids = <<1, 0, 1>>
  /\ count_offset = <<0, 1, 3>>

\* C9 (PermutedData size): size() of the view and of its access traits is
\* the extent of the permutation, whatever the extent of the data.
C9_SizeIsPermutationExtent ==
  last_call.op \in {"size", "traits_size"} => last_call.result = Len(permute)

\* C10 (PermutedData access): a call of x(i) or of get(x, i) for a logical
\* index i of the permutation returns data(permute(i)), paired with the
\* logical index i itself when indices are attached, and leaves the data and
\* the permutation as they were.
C10_PermutedAccess ==
  [][(last_call'.op \in {"call", "get"} /\ last_call' # last_call) =>
       LET i == last_call'.index
           element == data[permute[i + 1] + 1]
       IN  /\ data' = data
           /\ permute' = permute
           /\ last_call'.op = "call" => last_call'.result = element
           /\ last_call'.op = "get" /\ ~attach_indices =>
                last_call'.result = element
           /\ last_call'.op = "get" /\ attach_indices =>
                last_call'.result = [pred |-> element, data |-> i]]_vars

\* get(x, 0) with attached indices on a view whose permutation sends 0 to
\* position 2
C10_Witness ==
  /\ attach_indices
  /\ Len(data) = 3
  /\ permute = <<2, 0>>
  /\ last_call = [op |-> "get", index |-> 0,
                  result |-> [pred |-> <<"predicate", 2>>, data |-> 0]]

\* C11 (single-process scenario, as the code behaves): in a group of size 1
\* forwardQueries forwards one item per entry of the destination lists, each
\* from rank 0 to itself and in the order of the export buffer: fwd_ranks is
\* all 0, fwd_ids(i) is the query whose destination list holds entry i and
\* fwd_queries(i) is that query.  The outputs are empty exactly when every
\* destination list is empty.
C11_SingleProcessForwardsToSelf ==
  (comm_size = 1 /\ Forwarded(0)) =>
    /\ Len(fwd_ranks[0]) = Len(indices[0])
    /\ Len(fwd_ids[0]) = Len(indices[0])
    /\ Len(fwd_queries[0]) = Len(indices[0])
    /\ \A i \in 1 .. Len(indices[0]) :
         /\ fwd_ranks[0][i] = 0
         /\ fwd_ids[0][i] = BatchOf(offset[0], i - 1)
         /\ fwd_queries[0][i] = At(queries[0], BatchOf(offset[0], i - 1))

\* The only process forwarded two different queries to itself
C11_Witness ==
  /\ comm_size = 1
  /\ Forwarded(0)
  /\ fwd_ids[0] = <<0, 1>>

\* C11 as stated: in a group of size 1 forwardQueries produces zero
\* forwarded items, whatever the local query batch is.
C11_SingleProcessForwardsNothing ==
  (comm_size = 1 /\ Forwarded(0)) =>
    /\ fwd_queries[0] = <<>>
    /\ fwd_ids[0] = <<>>
    /\ fwd_ranks[0] = <<>>

\* Every destination list of every process is empty
EmptyDistribution == \A p \in Procs : indices[p] = <<>>

\* The items query q of process p contributed to the export buffers of
\* forwardQueries that p has handed over so far
ContributedIds(p, q) ==
  {i \in 1 .. Len(sent[p]["fq_ids"].exports) :
     sent[p]["fq_ids"].exports[i] = q}

ContributedQueries(p, q) ==
  {i \in 1 .. Len(sent[p]["fq_queries"].exports) :
     sent[p]["fq_queries"].exports[i] = At(queries[p], q)}

NothingForwarded(p) ==
  /\ fwd_queries[p] = <<>>
  /\ fwd_ids[p] = <<>>
  /\ fwd_ranks[p] = <<>>

\* What C12 says of a state: a query with an empty destination list has no
\* item in any export buffer, and under an empty distribution every export
\* buffer and, after forwardQueries, every output is empty
EmptyListsExportNothing ==
  \A p \in Procs :
     /\ \A q \in 0 .. (Len(queries[p]) - 1) :
          Slice(offset[p], q) = {} =>
            ContributedIds(p, q) = {} /\ ContributedQueries(p, q) = {}
     /\ EmptyDistribution =>
          /\ \A e \in {"fq_ranks", "fq_queries", "fq_ids"} :
               sent[p][e].exports = <<>>
          /\ distributor[p].n_imports = 0
          /\ NothingForwarded(p)

\* C12 (empty distribution): every step of the round leaves the queries, the
\* destination indices and the offset of every process as they were, and
\* leads to a state in which a query with an empty destination list has
\* contributed no item to an export buffer and, if all destination lists are
\* empty, every process has zero imports and three empty outputs.
C12_EmptyDistribution ==
  [][/\ queries' = queries
     /\ indices' = indices
     /\ offset' = offset
     /\ EmptyListsExportNothing']_vars

\* Two processes, one of them with two queries, returned from forwardQueries
\* under an empty distribution
C12_Witness ==
  /\ comm_size = 2
  /\ EmptyDistribution
  /\ \A p \in Procs : Forwarded(p)
  /\ \E p \in Procs : Len(queries[p]) = 2

\* sortResults takes process p from before to after the call
SortStep(p) == pc[p] = "sort" /\ pc'[p] # "sort"

\* view_after is view_before rearranged by perm: position j holds the
\* element formerly at position perm[j]
RearrangedBy(perm, view_before, view_after) ==
  /\ Len(view_after) = Len(view_before)
  /\ \A j \in 1 .. Len(view_before) : view_after[j] = view_before[perm[j]]

\* C13 (sortResults, one permutation for all companions): every call of
\* sortResults rearranges out, ranks and distances by one and the same
\* permutation perm of the positions, and the keys (ids) taken in the order
\* perm are non-decreasing.
C13_OnePermutationForAll ==
  [][\A p \in Procs :
       SortStep(p) =>
         \E perm \in Perms(1 .. Len(ids[p])) :
            /\ \A j \in 1 .. (Len(ids[p]) - 1) :
                 ids[p][perm[j]] <= ids[p][perm[j + 1]]
            /\ RearrangedBy(perm, out[p], out'[p])
            /\ RearrangedBy(perm, ranks[p], ranks'[p])
            /\ RearrangedBy(perm, distances[p], distances'[p])]_vars

\* sortResults has moved a result of the first query in front of a result
\* of the second one, the two differing in owner and in distance
C13_Witness ==
  /\ pc[0] = "filter"
  /\ ids[0] = <<1, 0, 1>>
  /\ out[0][1] = 1
  /\ ranks[0][1] = 1
  /\ distances[0] = <<2, 1, 1>>

\* The extents of the call disagree: exports with the plan's total send
\* length, imports with its total receive length, or exports with imports in
\* one of the packet dimensions 1..7
ExtentMismatch ==
  \/ send_exports[1] # send_plan.send
  \/ send_imports.extents[1] # send_plan.receive
  \/ \E d \in 2 .. 8 : send_exports[d] # send_imports.extents[d]

\* C14 (extent mismatch is fatal): a call of sendAcrossNetwork whose extents
\* disagree ends in the assertion failure, with nothing posted and imports
\* holding what it held before; a call whose extents agree never fails the
\* assertion and goes on to the exchange.
C14_ExtentMismatchIsFatal ==
  /\ send_pc = "assert_failed" =>
       /\ ExtentMismatch
       /\ ~send_posted
       /\ send_imports.items = Stale(send_imports.extents[1])
  /\ send_pc \in {"exchange", "returned"} => ~ExtentMismatch
  /\ send_posted => send_pc = "returned"

\* The assertion failed for a packet extent alone: both lengths fit the plan
\* and some item would have been exchanged
C14_Witness ==
  /\ send_pc = "assert_failed"
  /\ send_exports[1] = send_plan.send
  /\ send_imports.extents[1] = send_plan.receive
  /\ send_plan.receive = 2
  /\ send_exports[8] # send_imports.extents[8]

\* Everything the processes export to p in the exchange, by rank of sender
ExpectedImports(p) ==
  Flatten([i \in 1 .. comm_size |->
             Block(ExchangeExports(i - 1), ex_dests[i - 1], p)])

\* C15 (the exchange is a barrier per process): in every interleaving of
\* posts, deliveries and returns, the view imports of a process keeps its
\* former contents until the process returns from the exchange, and when it
\* has returned all its sends and receives have completed and imports holds
\* every item sent to it, none of them a slot that was never received.
C15_ExchangeIsBarrier ==
  \A p \in Procs :
     /\ ex_pc[p] # "returned" =>
          ex_imports[p] = Stale(ExchangeReceiveLength(p))
     /\ ex_pc[p] = "returned" =>
          /\ WaitsComplete(p)
          /\ ex_imports[p] = ExpectedImports(p)
          /\ \A i \in 1 .. Len(ex_imports[p]) : ex_imports[p][i] # "garbage"

\* A process has returned with items of two senders while the other process
\* is still waiting for a message
C15_Witness ==
  \E p, r \in Procs :
     /\ ex_pc[p] = "returned"
     /\ ex_pc[r] = "waiting"
     /\ ex_net # {}
     /\ \E i, j \in 1 .. Len(ex_imports[p]) :
          ex_imports[p][i][1] # ex_imports[p][j][1]

\* All processes make the same choice of passing distances or not
MatchingCalls == \A p, r \in Procs : with_distances[p] = with_distances[r]

\* C16 (round completion under matching collective calls): in a round in
\* which all processes pass distances or none does, every process eventually
\* returns from communicateResultsBack and stays returned; none is left in
\* an exchange.
C16_RoundCompletes ==
  MatchingCalls => <>[](\A p \in Procs : pc[p] = "gathered")

\* Both processes have returned from a round with four exchanges on the way
\* back, each holding a result of the other
C16_Witness ==
  /\ comm_size = 2
  /\ \A p \in Procs :
       /\ pc[p] = "gathered"
       /\ with_distances[p]
       /\ \E i \in 1 .. Len(ranks[p]) : ranks[p][i] # p

\* The query indices process s sent to process d, in the order they have in
\* the export buffer of s
IdsSentTo(s, d) ==
  [j \in 1 .. Len(Positions(indices[s], d)) |->
     BatchOf(offset[s], Positions(indices[s], d)[j] - 1)]

\* The ids process p received with sender rank s, in the order received
IdsReceivedFrom(p, s) ==
  [j \in 1 .. Len(Positions(fwd_ranks[p], s)) |->
     fwd_ids[p][Positions(fwd_ranks[p], s)[j]]]

\* Equal values of v are never separated by a different value
Contiguous(v) ==
  \A i, k \in 1 .. Len(v) :
     (i < k /\ v[i] = v[k]) => \A j \in i .. k : v[j] = v[i]

\* C17 (forwarding establishes contiguity): once forwardQueries has returned
\* on p, equal sender ranks in fwd_ranks are next to each other and the items
\* of each sender are in the order the sender exported them to p; and
\* communicateResultsBack builds its plan from these ranks, one destination
\* per result of each forwarded query, and sends its results in the order it
\* was given them.
C17_ContiguousPerSender ==
  \A p \in Procs :
     /\ Forwarded(p) =>
          /\ Contiguous(fwd_ranks[p])
          /\ \A s \in Procs : IdsReceivedFrom(p, s) = IdsSentTo(s, p)
     /\ Past(p, "crb_plan") =>
          /\ Contiguous(distributor[p].dests)
          /\ distributor[p].dests =
               [i \in 1 .. LastElement(res_offset[p]) |->
                  At(fwd_ranks[p], BatchOf(res_offset[p], i - 1))]
     /\ Past(p, "crb_out") => sent[p]["crb_out"].exports = res_out[p]

\* A process received two items of one sender and one of the other, and has
\* sent its results back
C17_Witness ==
  \E p \in Procs :
     /\ Past(p, "crb_out")
     /\ Len(fwd_ranks[p]) = 3
     /\ \E s \in Procs : s # p /\ Len(Positions(fwd_ranks[p], s)) = 2
     /\ Len(Positions(fwd_ranks[p], p)) = 1

\* ------------------------------------------- filterResults, query by query
\* The two parallel_for of filterResults run their n_queries items in any
\* order and concurrently.  Item q of truncate_results is followed statement
\* by statement: the test of line 385, one emplace per turn of the for loop,
\* one top/pop per turn of the while loop.  The queue of item q is the set of
\* positions of the flat buffers it holds (position i of the source is i + 1
\* here); its storage is local_buffer, the elements offset(q) .. offset(q+1)
\* of buffer, of which an emplace or a pop touches the ones in use.
NoUnit == [pc |-> "check", i |-> 0, queue |-> {}, count |-> 0]

\* The items of truncate_results
FilterQueries == 0 .. (Len(queries[0]) - 1)

\* The gathered results of process 0 after countResults and sortResults:
\* ids is sorted, result_offset is the CSR offset of ids
InitFilter ==
  /\ comm_size = MaxProcs
  /\ with_distances = [p \in Procs |-> TRUE]
  /\ indices = [p \in Procs |-> <<>>]
  /\ offset = [p \in Procs |-> <<0>>]
  /\ sendcounts = [g \in {"fq", "crb"} |-> [p \in Procs |-> <<>>]]
  /\ distributor = [p \in Procs |-> NoPlan]
  /\ chan = [s \in Procs |-> [d \in Procs |-> <<>>]]
  /\ sent = [p \in Procs |->
               [e \in PostStages |-> [exports |-> <<>>, dests |-> <<>>]]]
  /\ fwd_queries = [p \in Procs |-> <<>>]
  /\ fwd_ids = [p \in Procs |-> <<>>]
  /\ fwd_ranks = [p \in Procs |-> <<>>]
  /\ res_offset = [p \in Procs |-> <<0>>]
  /\ res_out = [p \in Procs |-> <<>>]
  /\ res_distances = [p \in Procs |-> <<>>]
  /\ CountUnused
  /\ PermutedUnused
  /\ SendUnused
  /\ ExchangeUnused
  /\ FilterUnused
  /\ \E kk \in SeqsUpTo(1 .. MaxK, MaxQueries) :
       queries = [p \in Procs |->
                    IF p = 0
                      THEN [q \in 1 .. Len(kk) |->
                              [tag |-> <<0, q - 1>>, k |-> kk[q]]]
                      ELSE <<>>]
  /\ \E m \in 0 .. MaxGathered :
       \E idv \in [1 .. m -> 0 .. (Len(queries[0]) - 1)],
          dsv \in [1 .. m -> 1 .. MaxDist] :
            /\ \A i, j \in 1 .. m : i < j => idv[i] <= idv[j]
            /\ ids = [p \in Procs |-> IF p = 0 THEN idv ELSE <<>>]
            /\ ranks = [p \in Procs |->
                          IF p = 0
                            THEN [i \in 1 .. m |-> (i - 1) % comm_size]
                            ELSE <<>>]
            /\ distances = [p \in Procs |-> IF p = 0 THEN dsv ELSE <<>>]
            /\ out = [p \in Procs |->
                        IF p = 0 THEN [i \in 1 .. m |-> i - 1] ELSE <<>>]
            /\ result_offset =
                 [p \in Procs |->
                    IF p = 0
                      THEN CountResultsOf(Len(queries[0]), idv)
                      ELSE <<0>>]
  /\ pc = [p \in Procs |-> IF p = 0 THEN "filter" ELSE "done"]

\* Lines 339-358: new_offset by discard_results and the exclusive scan, then
\* new_indices and new_ranks, zero-initialised views of n_truncated_results
\* elements; buffer is allocated without initialisation (lines 371-376)
FilterStart ==
  /\ pc[0] = "filter"
  /\ flt_pc = "idle"
  /\ flt_pc' = "truncate"
  /\ flt_new_offset' = NewOffset(queries[0], result_offset[0])
  /\ flt_new_indices' = Zeros(LastElement(flt_new_offset'))
  /\ flt_new_ranks' = Zeros(LastElement(flt_new_offset'))
  /\ flt_unit' = [q \in FilterQueries |-> NoUnit]
  /\ flt_scratch' = [q \in FilterQueries |-> {}]
  /\ flt_written' = [q \in FilterQueries |-> {}]
  /\ UNCHANGED <<roundVars, countVars, permutedVars, sendVars, exchangeVars>>

\* Line 385: if (offset(q + 1) > offset(q)); the queue is built empty over
\* local_buffer and the for loop starts at i = offset(q)
TruncateCheck(q) ==
  /\ flt_pc = "truncate"
  /\ flt_unit[q].pc = "check"
  /\ flt_unit' =
       [flt_unit EXCEPT ![q] =
          IF At(result_offset[0], q + 1) > At(result_offset[0], q)
            THEN [@ EXCEPT !.pc = "emplace", !.i = At(result_offset[0], q)]
            ELSE [@ EXCEPT !.pc = "exit"]]
  /\ UNCHANGED <<roundVars, countVars, permutedVars, sendVars, exchangeVars,
                 flt_pc, flt_new_offset, flt_new_indices, flt_new_ranks,
                 flt_scratch, flt_written>>

\* Lines 391-395: one turn of the for loop; the new element goes behind the
\* ones in the storage and is sifted among them
TruncateEmplace(q) ==
  /\ flt_pc = "truncate"
  /\ flt_unit[q].pc = "emplace"
  /\ flt_unit[q].i < At(result_offset[0], q + 1)
  /\ flt_unit' = [flt_unit EXCEPT ![q] =
                    [@ EXCEPT !.queue = @ \cup {flt_unit[q].i + 1},
                              !.i = @ + 1]]
  /\ flt_scratch' =
       [flt_scratch EXCEPT ![q] =
          @ \cup {At(result_offset[0], q) + j :
                    j \in 0 .. Cardinality(flt_unit[q].queue)}]
  /\ UNCHANGED <<roundVars, countVars, permutedVars, sendVars, exchangeVars,
                 flt_pc, flt_new_offset, flt_new_indices, flt_new_ranks,
                 flt_written>>

\* Lines 391 and 397: the for loop ends, int count = 0
TruncateLoopEnd(q) ==
  /\ flt_pc = "truncate"
  /\ flt_unit[q].pc = "emplace"
  /\ ~(flt_unit[q].i < At(result_offset[0], q + 1))
  /\ flt_unit' = [flt_unit EXCEPT ![q] = [@ EXCEPT !.pc = "pop", !.count = 0]]
  /\ UNCHANGED <<roundVars, countVars, permutedVars, sendVars, exchangeVars,
                 flt_pc, flt_new_offset, flt_new_indices, flt_new_ranks,
                 flt_scratch, flt_written>>

\* Faulty variant of TruncatePop: the pops are written from position count
\* of the new views, not from new_offset(q) + count
TruncatePopAtCount(q) ==
  /\ flt_pc = "truncate"
  /\ flt_unit[q].pc = "pop"
  /\ flt_unit[q].queue # {}
  /\ flt_unit[q].count < GetK(At(queries[0], q))
  /\ \E t \in QueueTops(flt_unit[q].queue, out[0], ranks[0], distances[0]) :
       LET at == flt_unit[q].count IN
         /\ flt_new_indices' = [flt_new_indices EXCEPT ![at + 1] = out[0][t]]
         /\ flt_new_ranks' = [flt_new_ranks EXCEPT ![at + 1] = ranks[0][t]]
         /\ flt_written' = [flt_written EXCEPT ![q] = @ \cup {at}]
         /\ flt_unit' = [flt_unit EXCEPT ![q] =
                           [@ EXCEPT !.queue = @ \ {t}, !.count = @ + 1]]
  /\ flt_scratch' =
       [flt_scratch EXCEPT ![q] =
          @ \cup {At(result_offset[0], q) + j :
                    j \in 0 .. (Cardinality(flt_unit[q].queue) - 1)}]
  /\ UNCHANGED <<roundVars, countVars, permutedVars, sendVars, exchangeVars,
                 flt_pc, flt_new_offset>>

\* Lines 398-404: one turn of the while loop; top() is written at
\* new_offset(q) + count, pop() moves the last element of the storage to the
\* front and sifts it
TruncatePop(q) ==
  /\ flt_pc = "truncate"
  /\ flt_unit[q].pc = "pop"
  /\ flt_unit[q].queue # {}
  /\ flt_unit[q].count < GetK(At(queries[0], q))
  /\ \E t \in QueueTops(flt_unit[q].queue, out[0], ranks[0], distances[0]) :
       LET at == At(flt_new_offset, q) + flt_unit[q].count IN
         /\ flt_new_indices' = [flt_new_indices EXCEPT ![at + 1] = out[0][t]]
         /\ flt_new_ranks' = [flt_new_ranks EXCEPT ![at + 1] = ranks[0][t]]
         /\ flt_written' = [flt_written EXCEPT ![q] = @ \cup {at}]
         /\ flt_unit' = [flt_unit EXCEPT ![q] =
                           [@ EXCEPT !.queue = @ \ {t}, !.count = @ + 1]]
  /\ flt_scratch' =
       [flt_scratch EXCEPT ![q] =
          @ \cup {At(result_offset[0], q) + j :
                    j \in 0 .. (Cardinality(flt_unit[q].queue) - 1)}]
  /\ UNCHANGED <<roundVars, countVars, permutedVars, sendVars, exchangeVars,
                 flt_pc, flt_new_offset>>

\* Line 398: the while condition fails, item q is done
TruncateExit(q) ==
  /\ flt_pc = "truncate"
  /\ flt_unit[q].pc = "pop"
  /\ ~(/\ flt_unit[q].queue # {}
       /\ flt_unit[q].count < GetK(At(queries[0], q)))
  /\ flt_unit' = [flt_unit EXCEPT ![q] = [@ EXCEPT !.pc = "exit"]]
  /\ UNCHANGED <<roundVars, countVars, permutedVars, sendVars, exchangeVars,
                 flt_pc, flt_new_offset, flt_new_indices, flt_new_ranks,
                 flt_scratch, flt_written>>

\* Lines 407-409, after all items of truncate_results: indices, ranks and
\* offset are rebound to the new views
FilterRebind ==
  /\ flt_pc = "truncate"
  /\ \A q \in FilterQueries : flt_unit[q].pc = "exit"
  /\ flt_pc' = "done"
  /\ out' = [out EXCEPT ![0] = flt_new_indices]
  /\ ranks' = [ranks EXCEPT ![0] = flt_new_ranks]
  /\ result_offset' = [result_offset EXCEPT ![0] = flt_new_offset]
  /\ pc' = [pc EXCEPT ![0] = "done"]
  /\ UNCHANGED <<countVars, permutedVars, sendVars, exchangeVars,
                 inputVars, sendcounts, distributor, chan, sent,
                 fwdVars, resVars, ids, distances,
                 flt_new_offset, flt_new_indices, flt_new_ranks, flt_unit,
                 flt_scratch, flt_written>>

NextFilter ==
  \/ FilterStart
  \/ \E q \in FilterQueries : TruncateCheck(q)
  \/ \E q \in FilterQueries : TruncateEmplace(q)
  \/ \E q \in FilterQueries : TruncateLoopEnd(q)
  \/ \E q \in FilterQueries : TruncatePop(q)
  \/ \E q \in FilterQueries : TruncateExit(q)
  \/ FilterRebind

SpecFilter == InitFilter /\ [][NextFilter]_vars

\* Item q of truncate_results takes one turn of its while loop
PopStep(q) ==
  /\ flt_pc = "truncate"
  /\ flt_unit[q].pc = "pop"
  /\ flt_unit'[q].count = flt_unit[q].count + 1

\* The position the queue of item q loses in the step
Popped(q) ==
  CHOOSE t \in flt_unit[q].queue : t \notin flt_unit'[q].queue

\* C18 (heap orientation, as the code has it): the candidate with the
\* smallest distance has the highest priority.  In every turn of the while
\* loop, the first one after all pushes included, the entry written to
\* new_indices and new_ranks and popped is a candidate whose distance is
\* minimal among the candidates in the queue.
C18_TopIsNearest ==
  [][\A q \in FilterQueries :
       PopStep(q) =>
         LET t == Popped(q)
             at == At(flt_new_offset, q) + flt_unit[q].count
         IN /\ \A j \in flt_unit[q].queue :
                 distances[0][t] <= distances[0][j]
            /\ flt_new_indices'[at + 1] = out[0][t]
            /\ flt_new_ranks'[at + 1] = ranks[0][t]]_vars

\* C18 as stated: after all candidates of a query have been pushed, the top
\* of the queue, which the first turn of the while loop pops, is a candidate
\* of maximal distance among them.
C18_TopIsFarthest ==
  [][\A q \in FilterQueries :
       (PopStep(q) /\ flt_unit[q].count = 0) =>
         \A j \in flt_unit[q].queue :
            distances[0][Popped(q)] >= distances[0][j]]_vars

\* The first pop of a query with two candidates has emitted the nearer one
\* and left the farther one in the queue
C18_Witness ==
  /\ flt_pc = "truncate"
  /\ \E q \in FilterQueries :
       /\ flt_unit[q].pc = "pop"
       /\ flt_unit[q].count = 1
       /\ \E j \in flt_unit[q].queue :
            distances[0][j] >
              distances[0][flt_new_indices[At(flt_new_offset, q) + 1] + 1]

\* The positions of buffer that belong to query q: [offset(q), offset(q+1))
ScratchRange(q) ==
  At(result_offset[0], q) .. (At(result_offset[0], q + 1) - 1)

\* The positions of the new views that belong to query q:
\* [new_offset(q), new_offset(q+1))
OutputRange(q) ==
  At(flt_new_offset, q) .. (At(flt_new_offset, q + 1) - 1)

\* The slice of query q in the new views is one of the pop orders of q alone
SliceOfQueryAlone(q) ==
  \E c \in TruncateQuery(q, queries[0], result_offset[0], out[0], ranks[0],
                         distances[0]) :
     /\ Len(c) = Cardinality(OutputRange(q))
     /\ \A n \in 1 .. Len(c) :
          /\ flt_new_indices[At(flt_new_offset, q) + n] = out[0][c[n]]
          /\ flt_new_ranks[At(flt_new_offset, q) + n] = ranks[0][c[n]]

\* C19 (per-query independence in filterResults): while the items of
\* truncate_results run, in any interleaving, item q has written buffer only
\* inside [offset(q), offset(q+1)) and the new views only inside
\* [new_offset(q), new_offset(q+1)); the ranges of two queries are disjoint;
\* the queue of q never holds more than offset(q+1) - offset(q) elements; an
\* item without candidates has made no heap step and no write; what no item
\* has written is still zero; and the slice of a finished item is a pop
\* order of its own candidates, whatever the other items have done.
C19_PerQueryIndependence ==
  flt_pc = "truncate" =>
    /\ \A q \in FilterQueries :
         /\ flt_scratch[q] \subseteq ScratchRange(q)
         /\ flt_written[q] \subseteq OutputRange(q)
         /\ \A r \in FilterQueries :
              r # q =>
                /\ ScratchRange(q) \cap ScratchRange(r) = {}
                /\ OutputRange(q) \cap OutputRange(r) = {}
         /\ Cardinality(flt_unit[q].queue) <= Cardinality(ScratchRange(q))
         /\ ScratchRange(q) = {} =>
              /\ flt_unit[q].pc \in {"check", "exit"}
              /\ flt_unit[q].queue = {}
              /\ flt_unit[q].i = 0
              /\ flt_unit[q].count = 0
              /\ flt_scratch[q] = {}
              /\ flt_written[q] = {}
         /\ flt_unit[q].pc = "exit" => SliceOfQueryAlone(q)
    /\ \A j \in 1 .. Len(flt_new_indices) :
         (\A q \in FilterQueries : (j - 1) \notin flt_written[q]) =>
           /\ flt_new_indices[j] = 0
           /\ flt_new_ranks[j] = 0

\* Two items are under way at once: the second query has emitted a result
\* into its slice of the new views while the first one is still pushing
C19_Witness ==
  /\ flt_pc = "truncate"
  /\ Len(queries[0]) = 2
  /\ flt_unit[0].pc = "emplace"
  /\ flt_unit[0].queue # {}
  /\ flt_unit[1].pc = "pop"
  /\ flt_written[1] = {At(flt_new_offset, 1)}
  /\ At(flt_new_offset, 1) > 0

\* C20 (sortResults frame): a call of sortResults leaves the caller's keys
\* (ids) as they were, and a call with no keys (n == 0) leaves every
\* companion view as it was.
C20_SortResultsFrame ==
  [][\A p \in Procs :
       SortStep(p) =>
         /\ ids'[p] = ids[p]
         /\ Len(ids[p]) = 0 =>
              /\ out'[p] = out[p]
              /\ ranks'[p] = ranks[p]
              /\ distances'[p] = distances[p]]_vars

\* sortResults has returned, the companions are rearranged and the keys are
\* still out of order
C20_Witness ==
  /\ pc[0] = "filter"
  /\ ids[0] = <<1, 0, 0>>
  /\ out[0] = <<1, 2, 0>>

====
